---- MODULE Spec2Model ----
(***************************************************************************)
(* Appointment booking backend (src/backend/server.js): the Cita           *)
(* collection with its unique index, the POST /api/appointments handler,   *)
(* the cancel handler, the occupied-slots query, and the two external      *)
(* collaborators (Google Calendar, Twilio SMS).                            *)
(*                                                                         *)
(* Time is counted in hours since an epoch (UTC).  The fecha of a request  *)
(* is a text: a date "YYYY-MM-DD" (what the form sends), a date-time       *)
(* "YYYY-MM-DDTHH:00:00Z", a date in a notation that is not ISO 8601 but   *)
(* that Date.parse reads (FechaTexto), or a string that is no date at all  *)
(* (NoFecha).  Text fields are sequences of UTF-16 code units.  A server   *)
(* time zone is an offset that may change once (daylight saving).          *)
(*                                                                         *)
(* The clock moves over the first hours of day 2 (UTC); with the offsets   *)
(* of Husos the server's local date is day 1 (UTC-6) or day 2 (UTC,        *)
(* UTC+6), so day 0 is always past, day 1 is "today" or "yesterday" and    *)
(* day 2 is "tomorrow" or "today".  Every await of a handler is a step of  *)
(* its own, and the outcome of the awaited call is chosen by the action's  *)
(* parameter.                                                              *)
(*                                                                         *)
(* Specifications:                                                         *)
(*   Spec            all handlers on one bookable (date, slot) at every    *)
(*                   clock and offset, the clock advancing;                *)
(*   SpecFallos      booking and cancel where every call to the store and  *)
(*                   to a collaborator may fail;                           *)
(*   SpecDos         booking and cancel on two bookable (date, slot)       *)
(*                   pairs, so the collection holds two appointments;      *)
(*   SpecFiable      the same with a store and collaborators that never    *)
(*                   fail;                                                 *)
(*   SpecFechaHora   the same with one day and slot requested as a date    *)
(*                   and as a date-time;                                   *)
(*   SpecEvento      the booking handler on servers whose time zone has    *)
(*                   daylight saving;                                      *)
(*   SpecValidacion  the booking handler on every combination of valid     *)
(*                   and invalid fields, on dates in each notation and on  *)
(*                   an email that makes its validator raise an exception; *)
(*   SpecListado     GET /api/appointments on collections stored in any    *)
(*                   order;                                                *)
(*   SpecRespuesta   the booking handler with collaborators that may       *)
(*                   never answer, under weak fairness of its own steps.   *)
(***************************************************************************)
EXTENDS Integers, Sequences, FiniteSets, TLC

VARIABLES citas, eventos, mensajes, req, can, ocupadas, listado, now, tz, recibidas

vars == <<citas, eventos, mensajes, req, can, ocupadas, listado, now, tz, recibidas>>

-----------------------------------------------------------------------------
(* Bounds of the explored behaviours *)

MaxSolicitudes == 3

Reqs == {1, 2}

\* A server time zone: `antes` hours east of UTC before the instant `cambio`,
\* `despues` hours from it on (offsets and changes of whole hours).
ZonaFija(d) == [antes |-> d, despues |-> d, cambio |-> 0]

\* clocks go back one hour at 02:00 local of day 2 (57 UTC), and forward one
\* hour at 02:00 local of day 2 (58 UTC)
ZonaOtono == [antes |-> -7, despues |-> -8, cambio |-> 57]
ZonaPrimavera == [antes |-> -8, despues |-> -7, cambio |-> 58]

\* server time zones without daylight saving, and the instants the server
\* clock passes through
Husos == {ZonaFija(-6), ZonaFija(0), ZonaFija(6)}
Relojes == {48, 52}

\* calendar days a request may name
Dias == {0, 1, 2}

-----------------------------------------------------------------------------
(* Program constants *)

HorasPorDia == 24

Horarios == <<"08:00", "09:00", "10:00", "11:00", "13:00", "14:00", "15:00", "16:00">>

Servicios == {"limpieza-dental", "ortodoncia", "extracciones", "implantes",
              "carillas", "diseño-sonrisa", "radiografia", "protesis-dentales"}

Estados == {"confirmada", "cancelada", "completada"}

EstadoPorDefecto == "confirmada"

SinEvento == 0
SinCita == 0

-----------------------------------------------------------------------------
(* Text *)

\* A text is a sequence of UTF-16 code units, as a JavaScript string is.
\* Texto writes one from its printable ASCII characters; a character that has
\* no literal (the grave accent, a tab, a letter beyond ASCII) is written by
\* its code.
Imprimibles ==
    <<" ", "!", "\"", "#", "$", "%", "&", "'", "(", ")", "*", "+", ",", "-", ".", "/",
      "0", "1", "2", "3", "4", "5", "6", "7", "8", "9", ":", ";", "<", "=", ">", "?",
      "@", "A", "B", "C", "D", "E", "F", "G", "H", "I", "J", "K", "L", "M", "N", "O",
      "P", "Q", "R", "S", "T", "U", "V", "W", "X", "Y", "Z", "[", "\\", "]", "^", "_">>

Minusculas ==
    <<"a", "b", "c", "d", "e", "f", "g", "h", "i", "j", "k", "l", "m", "n", "o", "p",
      "q", "r", "s", "t", "u", "v", "w", "x", "y", "z">>

Llaves == <<"{", "|", "}", "~">>

Esta(l, c) == \E i \in 1..Len(l) : l[i] = c

Indice(l, c) == CHOOSE i \in 1..Len(l) : l[i] = c

\* String.prototype.charCodeAt of the printable ASCII characters other than
\* "`": 32..95, 97..122, 123..126
TablaCod ==
    [c \in {Imprimibles[i] : i \in 1..Len(Imprimibles)}
           \cup {Minusculas[i] : i \in 1..Len(Minusculas)}
           \cup {Llaves[i] : i \in 1..Len(Llaves)} |->
        IF Esta(Imprimibles, c) THEN 31 + Indice(Imprimibles, c)
        ELSE IF Esta(Minusculas, c) THEN 96 + Indice(Minusculas, c)
        ELSE 122 + Indice(Llaves, c)]

Cod(c) == TablaCod[c]

Texto(s) == [i \in 1..Len(s) |-> Cod(s[i])]

EnRango(c, a, b) == c >= a /\ c <= b

\* the class \s of a regular expression, which is also what
\* String.prototype.trim removes: tab, line feed, vertical tab, form feed,
\* carriage return, blank, U+00A0, U+1680, U+2000..U+200A, U+2028, U+2029,
\* U+202F, U+205F, U+3000, U+FEFF
Blancos ==
    {9, 10, 11, 12, 13, 32, 160, 5760, 8232, 8233, 8239, 8287, 12288, 65279} \cup (8192..8202)

EsBlanco(c) == c \in Blancos

EsLetraAZ(c) == EnRango(c, 65, 90) \/ EnRango(c, 97, 122)

EsDigito(c) == EnRango(c, 48, 57)

\* str.replace(/^\s+/g, ''): the text from its first character that is not
\* white space
TrimIzq(s) ==
    IF \A i \in 1..Len(s) : EsBlanco(s[i]) THEN <<>>
    ELSE SubSeq(s, CHOOSE i \in 1..Len(s) :
                      ~EsBlanco(s[i]) /\ \A j \in 1..(i - 1) : EsBlanco(s[j]),
                Len(s))

\* str.replace(/\s+$/g, ''): the text up to its last character that is not
\* white space
TrimDer(s) ==
    IF \A i \in 1..Len(s) : EsBlanco(s[i]) THEN <<>>
    ELSE SubSeq(s, 1, Len(s) - CHOOSE k \in 0..(Len(s) - 1) :
                                  /\ ~EsBlanco(s[Len(s) - k])
                                  /\ \A j \in 0..(k - 1) : EsBlanco(s[Len(s) - j]))

Trim(s) == TrimDer(TrimIzq(s))

\* UTF-16: a code unit of the high or of the low surrogate range, the two
\* halves of a pair, and a surrogate that is half of no pair
EsAlto(c) == EnRango(c, 55296, 56319)

EsBajo(c) == EnRango(c, 56320, 57343)

PrimeraMitad(s, i) == i < Len(s) /\ EsAlto(s[i]) /\ EsBajo(s[i + 1])

SegundaMitad(s, i) == i > 1 /\ EsBajo(s[i]) /\ EsAlto(s[i - 1])

SustitutoSuelto(s) ==
    \E i \in 1..Len(s) :
        \/ EsAlto(s[i]) /\ ~PrimeraMitad(s, i)
        \/ EsBajo(s[i]) /\ ~SegundaMitad(s, i)

\* String.prototype.codePointAt(i) and String.fromCodePoint(p)
PuntoEn(s, i) ==
    IF PrimeraMitad(s, i) THEN 65536 + (s[i] - 55296) * 1024 + (s[i + 1] - 56320) ELSE s[i]

Unidades(p) ==
    IF p < 65536 THEN <<p>>
    ELSE <<55296 + ((p - 65536) \div 1024), 56320 + ((p - 65536) % 1024)>>

\* String.prototype.toLowerCase follows the Unicode Character Database of the
\* runtime's ICU: the tables below are those of Unicode 17.0.0 (ICU 78, the
\* one of Node.js 20.20).  Its simple lowercase mappings, as
\* <<first, last, step, delta>>: every step-th code point from first to last
\* maps to itself plus delta.
ReglasMinuscula ==
    {<<65, 90, 1, 32>>, <<192, 214, 1, 32>>, <<216, 222, 1, 32>>, <<256, 302, 2, 1>>,
     <<306, 310, 2, 1>>, <<313, 327, 2, 1>>, <<330, 374, 2, 1>>, <<376, 376, 1, -121>>,
     <<377, 381, 2, 1>>, <<385, 385, 1, 210>>, <<386, 388, 2, 1>>, <<390, 390, 1, 206>>,
     <<391, 391, 1, 1>>, <<393, 394, 1, 205>>, <<395, 395, 1, 1>>, <<398, 398, 1, 79>>,
     <<399, 399, 1, 202>>, <<400, 400, 1, 203>>, <<401, 401, 1, 1>>, <<403, 403, 1, 205>>,
     <<404, 404, 1, 207>>, <<406, 406, 1, 211>>, <<407, 407, 1, 209>>, <<408, 408, 1, 1>>,
     <<412, 412, 1, 211>>, <<413, 413, 1, 213>>, <<415, 415, 1, 214>>, <<416, 420, 2, 1>>,
     <<422, 422, 1, 218>>, <<423, 423, 1, 1>>, <<425, 425, 1, 218>>, <<428, 428, 1, 1>>,
     <<430, 430, 1, 218>>, <<431, 431, 1, 1>>, <<433, 434, 1, 217>>, <<435, 437, 2, 1>>,
     <<439, 439, 1, 219>>, <<440, 440, 1, 1>>, <<444, 444, 1, 1>>, <<452, 452, 1, 2>>,
     <<453, 453, 1, 1>>, <<455, 455, 1, 2>>, <<456, 456, 1, 1>>, <<458, 458, 1, 2>>,
     <<459, 475, 2, 1>>, <<478, 494, 2, 1>>, <<497, 497, 1, 2>>, <<498, 500, 2, 1>>,
     <<502, 502, 1, -97>>, <<503, 503, 1, -56>>, <<504, 542, 2, 1>>, <<544, 544, 1, -130>>,
     <<546, 562, 2, 1>>, <<570, 570, 1, 10795>>, <<571, 571, 1, 1>>, <<573, 573, 1, -163>>,
     <<574, 574, 1, 10792>>, <<577, 577, 1, 1>>, <<579, 579, 1, -195>>, <<580, 580, 1, 69>>,
     <<581, 581, 1, 71>>, <<582, 590, 2, 1>>, <<880, 882, 2, 1>>, <<886, 886, 1, 1>>,
     <<895, 895, 1, 116>>, <<902, 902, 1, 38>>, <<904, 906, 1, 37>>, <<908, 908, 1, 64>>,
     <<910, 911, 1, 63>>, <<913, 929, 1, 32>>, <<931, 939, 1, 32>>, <<975, 975, 1, 8>>,
     <<984, 1006, 2, 1>>, <<1012, 1012, 1, -60>>, <<1015, 1015, 1, 1>>, <<1017, 1017, 1, -7>>,
     <<1018, 1018, 1, 1>>, <<1021, 1023, 1, -130>>, <<1024, 1039, 1, 80>>, <<1040, 1071, 1, 32>>,
     <<1120, 1152, 2, 1>>, <<1162, 1214, 2, 1>>, <<1216, 1216, 1, 15>>, <<1217, 1229, 2, 1>>,
     <<1232, 1326, 2, 1>>, <<1329, 1366, 1, 48>>, <<4256, 4293, 1, 7264>>, <<4295, 4295, 1, 7264>>,
     <<4301, 4301, 1, 7264>>, <<5024, 5103, 1, 38864>>, <<5104, 5109, 1, 8>>, <<7305, 7305, 1, 1>>,
     <<7312, 7354, 1, -3008>>, <<7357, 7359, 1, -3008>>, <<7680, 7828, 2, 1>>, <<7838, 7838, 1, -7615>>,
     <<7840, 7934, 2, 1>>, <<7944, 7951, 1, -8>>, <<7960, 7965, 1, -8>>, <<7976, 7983, 1, -8>>,
     <<7992, 7999, 1, -8>>, <<8008, 8013, 1, -8>>, <<8025, 8031, 2, -8>>, <<8040, 8047, 1, -8>>,
     <<8072, 8079, 1, -8>>, <<8088, 8095, 1, -8>>, <<8104, 8111, 1, -8>>, <<8120, 8121, 1, -8>>,
     <<8122, 8123, 1, -74>>, <<8124, 8124, 1, -9>>, <<8136, 8139, 1, -86>>, <<8140, 8140, 1, -9>>,
     <<8152, 8153, 1, -8>>, <<8154, 8155, 1, -100>>, <<8168, 8169, 1, -8>>, <<8170, 8171, 1, -112>>,
     <<8172, 8172, 1, -7>>, <<8184, 8185, 1, -128>>, <<8186, 8187, 1, -126>>, <<8188, 8188, 1, -9>>,
     <<8486, 8486, 1, -7517>>, <<8490, 8490, 1, -8383>>, <<8491, 8491, 1, -8262>>, <<8498, 8498, 1, 28>>,
     <<8544, 8559, 1, 16>>, <<8579, 8579, 1, 1>>, <<9398, 9423, 1, 26>>, <<11264, 11311, 1, 48>>,
     <<11360, 11360, 1, 1>>, <<11362, 11362, 1, -10743>>, <<11363, 11363, 1, -3814>>, <<11364, 11364, 1, -10727>>,
     <<11367, 11371, 2, 1>>, <<11373, 11373, 1, -10780>>, <<11374, 11374, 1, -10749>>, <<11375, 11375, 1, -10783>>,
     <<11376, 11376, 1, -10782>>, <<11378, 11378, 1, 1>>, <<11381, 11381, 1, 1>>, <<11390, 11391, 1, -10815>>,
     <<11392, 11490, 2, 1>>, <<11499, 11501, 2, 1>>, <<11506, 11506, 1, 1>>, <<42560, 42604, 2, 1>>,
     <<42624, 42650, 2, 1>>, <<42786, 42798, 2, 1>>, <<42802, 42862, 2, 1>>, <<42873, 42875, 2, 1>>,
     <<42877, 42877, 1, -35332>>, <<42878, 42886, 2, 1>>, <<42891, 42891, 1, 1>>, <<42893, 42893, 1, -42280>>,
     <<42896, 42898, 2, 1>>, <<42902, 42920, 2, 1>>, <<42922, 42922, 1, -42308>>, <<42923, 42923, 1, -42319>>,
     <<42924, 42924, 1, -42315>>, <<42925, 42925, 1, -42305>>, <<42926, 42926, 1, -42308>>, <<42928, 42928, 1, -42258>>,
     <<42929, 42929, 1, -42282>>, <<42930, 42930, 1, -42261>>, <<42931, 42931, 1, 928>>, <<42932, 42946, 2, 1>>,
     <<42948, 42948, 1, -48>>, <<42949, 42949, 1, -42307>>, <<42950, 42950, 1, -35384>>, <<42951, 42953, 2, 1>>,
     <<42955, 42955, 1, -42343>>, <<42956, 42970, 2, 1>>, <<42972, 42972, 1, -42561>>, <<42997, 42997, 1, 1>>,
     <<65313, 65338, 1, 32>>, <<66560, 66599, 1, 40>>, <<66736, 66771, 1, 40>>, <<66928, 66964, 2, 39>>,
     <<66929, 66937, 2, 39>>, <<66941, 66953, 2, 39>>, <<66957, 66961, 2, 39>>, <<66965, 66965, 1, 39>>,
     <<68736, 68786, 1, 64>>, <<68944, 68965, 1, 32>>, <<71840, 71871, 1, 32>>, <<93760, 93791, 1, 32>>,
     <<93856, 93880, 1, 27>>, <<125184, 125217, 1, 34>>}

\* the code points with the property Cased that are not Case_Ignorable, and
\* the code points that are Case_Ignorable, as <<first, last>>
RangosConCaja ==
    {<<65, 90>>, <<97, 122>>, <<170, 170>>, <<181, 181>>, <<186, 186>>,
     <<192, 214>>, <<216, 246>>, <<248, 442>>, <<444, 447>>, <<452, 659>>,
     <<662, 687>>, <<880, 883>>, <<886, 887>>, <<891, 893>>, <<895, 895>>,
     <<902, 902>>, <<904, 906>>, <<908, 908>>, <<910, 929>>, <<931, 1013>>,
     <<1015, 1153>>, <<1162, 1327>>, <<1329, 1366>>, <<1376, 1416>>, <<4256, 4293>>,
     <<4295, 4295>>, <<4301, 4301>>, <<4304, 4346>>, <<4349, 4351>>, <<5024, 5109>>,
     <<5112, 5117>>, <<7296, 7306>>, <<7312, 7354>>, <<7357, 7359>>, <<7424, 7467>>,
     <<7531, 7543>>, <<7545, 7578>>, <<7680, 7957>>, <<7960, 7965>>, <<7968, 8005>>,
     <<8008, 8013>>, <<8016, 8023>>, <<8025, 8025>>, <<8027, 8027>>, <<8029, 8029>>,
     <<8031, 8061>>, <<8064, 8116>>, <<8118, 8124>>, <<8126, 8126>>, <<8130, 8132>>,
     <<8134, 8140>>, <<8144, 8147>>, <<8150, 8155>>, <<8160, 8172>>, <<8178, 8180>>,
     <<8182, 8188>>, <<8450, 8450>>, <<8455, 8455>>, <<8458, 8467>>, <<8469, 8469>>,
     <<8473, 8477>>, <<8484, 8484>>, <<8486, 8486>>, <<8488, 8488>>, <<8490, 8493>>,
     <<8495, 8500>>, <<8505, 8505>>, <<8508, 8511>>, <<8517, 8521>>, <<8526, 8526>>,
     <<8544, 8575>>, <<8579, 8580>>, <<9398, 9449>>, <<11264, 11387>>, <<11390, 11492>>,
     <<11499, 11502>>, <<11506, 11507>>, <<11520, 11557>>, <<11559, 11559>>, <<11565, 11565>>,
     <<42560, 42605>>, <<42624, 42651>>, <<42786, 42863>>, <<42865, 42887>>, <<42891, 42894>>,
     <<42896, 42972>>, <<42997, 42998>>, <<43002, 43002>>, <<43824, 43866>>, <<43872, 43880>>,
     <<43888, 43967>>, <<64256, 64262>>, <<64275, 64279>>, <<65313, 65338>>, <<65345, 65370>>,
     <<66560, 66639>>, <<66736, 66771>>, <<66776, 66811>>, <<66928, 66938>>, <<66940, 66954>>,
     <<66956, 66962>>, <<66964, 66965>>, <<66967, 66977>>, <<66979, 66993>>, <<66995, 67001>>,
     <<67003, 67004>>, <<68736, 68786>>, <<68800, 68850>>, <<68944, 68965>>, <<68976, 68997>>,
     <<71840, 71903>>, <<93760, 93823>>, <<93856, 93880>>, <<93883, 93907>>, <<119808, 119892>>,
     <<119894, 119964>>, <<119966, 119967>>, <<119970, 119970>>, <<119973, 119974>>, <<119977, 119980>>,
     <<119982, 119993>>, <<119995, 119995>>, <<119997, 120003>>, <<120005, 120069>>, <<120071, 120074>>,
     <<120077, 120084>>, <<120086, 120092>>, <<120094, 120121>>, <<120123, 120126>>, <<120128, 120132>>,
     <<120134, 120134>>, <<120138, 120144>>, <<120146, 120485>>, <<120488, 120512>>, <<120514, 120538>>,
     <<120540, 120570>>, <<120572, 120596>>, <<120598, 120628>>, <<120630, 120654>>, <<120656, 120686>>,
     <<120688, 120712>>, <<120714, 120744>>, <<120746, 120770>>, <<120772, 120779>>, <<122624, 122633>>,
     <<122635, 122654>>, <<122661, 122666>>, <<125184, 125251>>, <<127280, 127305>>, <<127312, 127337>>,
     <<127344, 127369>>}

RangosIgnorables ==
    {<<39, 39>>, <<46, 46>>, <<58, 58>>, <<94, 94>>, <<96, 96>>,
     <<168, 168>>, <<173, 173>>, <<175, 175>>, <<180, 180>>, <<183, 184>>,
     <<688, 879>>, <<884, 885>>, <<890, 890>>, <<900, 901>>, <<903, 903>>,
     <<1155, 1161>>, <<1369, 1369>>, <<1375, 1375>>, <<1425, 1469>>, <<1471, 1471>>,
     <<1473, 1474>>, <<1476, 1477>>, <<1479, 1479>>, <<1524, 1524>>, <<1536, 1541>>,
     <<1552, 1562>>, <<1564, 1564>>, <<1600, 1600>>, <<1611, 1631>>, <<1648, 1648>>,
     <<1750, 1757>>, <<1759, 1768>>, <<1770, 1773>>, <<1807, 1807>>, <<1809, 1809>>,
     <<1840, 1866>>, <<1958, 1968>>, <<2027, 2037>>, <<2042, 2042>>, <<2045, 2045>>,
     <<2070, 2093>>, <<2137, 2139>>, <<2184, 2184>>, <<2192, 2193>>, <<2199, 2207>>,
     <<2249, 2306>>, <<2362, 2362>>, <<2364, 2364>>, <<2369, 2376>>, <<2381, 2381>>,
     <<2385, 2391>>, <<2402, 2403>>, <<2417, 2417>>, <<2433, 2433>>, <<2492, 2492>>,
     <<2497, 2500>>, <<2509, 2509>>, <<2530, 2531>>, <<2558, 2558>>, <<2561, 2562>>,
     <<2620, 2620>>, <<2625, 2626>>, <<2631, 2632>>, <<2635, 2637>>, <<2641, 2641>>,
     <<2672, 2673>>, <<2677, 2677>>, <<2689, 2690>>, <<2748, 2748>>, <<2753, 2757>>,
     <<2759, 2760>>, <<2765, 2765>>, <<2786, 2787>>, <<2810, 2815>>, <<2817, 2817>>,
     <<2876, 2876>>, <<2879, 2879>>, <<2881, 2884>>, <<2893, 2893>>, <<2901, 2902>>,
     <<2914, 2915>>, <<2946, 2946>>, <<3008, 3008>>, <<3021, 3021>>, <<3072, 3072>>,
     <<3076, 3076>>, <<3132, 3132>>, <<3134, 3136>>, <<3142, 3144>>, <<3146, 3149>>,
     <<3157, 3158>>, <<3170, 3171>>, <<3201, 3201>>, <<3260, 3260>>, <<3263, 3263>>,
     <<3270, 3270>>, <<3276, 3277>>, <<3298, 3299>>, <<3328, 3329>>, <<3387, 3388>>,
     <<3393, 3396>>, <<3405, 3405>>, <<3426, 3427>>, <<3457, 3457>>, <<3530, 3530>>,
     <<3538, 3540>>, <<3542, 3542>>, <<3633, 3633>>, <<3636, 3642>>, <<3654, 3662>>,
     <<3761, 3761>>, <<3764, 3772>>, <<3782, 3782>>, <<3784, 3790>>, <<3864, 3865>>,
     <<3893, 3893>>, <<3895, 3895>>, <<3897, 3897>>, <<3953, 3966>>, <<3968, 3972>>,
     <<3974, 3975>>, <<3981, 3991>>, <<3993, 4028>>, <<4038, 4038>>, <<4141, 4144>>,
     <<4146, 4151>>, <<4153, 4154>>, <<4157, 4158>>, <<4184, 4185>>, <<4190, 4192>>,
     <<4209, 4212>>, <<4226, 4226>>, <<4229, 4230>>, <<4237, 4237>>, <<4253, 4253>>,
     <<4348, 4348>>, <<4957, 4959>>, <<5906, 5908>>, <<5938, 5939>>, <<5970, 5971>>,
     <<6002, 6003>>, <<6068, 6069>>, <<6071, 6077>>, <<6086, 6086>>, <<6089, 6099>>,
     <<6103, 6103>>, <<6109, 6109>>, <<6155, 6159>>, <<6211, 6211>>, <<6277, 6278>>,
     <<6313, 6313>>, <<6432, 6434>>, <<6439, 6440>>, <<6450, 6450>>, <<6457, 6459>>,
     <<6679, 6680>>, <<6683, 6683>>, <<6742, 6742>>, <<6744, 6750>>, <<6752, 6752>>,
     <<6754, 6754>>, <<6757, 6764>>, <<6771, 6780>>, <<6783, 6783>>, <<6823, 6823>>,
     <<6832, 6877>>, <<6880, 6891>>, <<6912, 6915>>, <<6964, 6964>>, <<6966, 6970>>,
     <<6972, 6972>>, <<6978, 6978>>, <<7019, 7027>>, <<7040, 7041>>, <<7074, 7077>>,
     <<7080, 7081>>, <<7083, 7085>>, <<7142, 7142>>, <<7144, 7145>>, <<7149, 7149>>,
     <<7151, 7153>>, <<7212, 7219>>, <<7222, 7223>>, <<7288, 7293>>, <<7376, 7378>>,
     <<7380, 7392>>, <<7394, 7400>>, <<7405, 7405>>, <<7412, 7412>>, <<7416, 7417>>,
     <<7468, 7530>>, <<7544, 7544>>, <<7579, 7679>>, <<8125, 8125>>, <<8127, 8129>>,
     <<8141, 8143>>, <<8157, 8159>>, <<8173, 8175>>, <<8189, 8190>>, <<8203, 8207>>,
     <<8216, 8217>>, <<8228, 8228>>, <<8231, 8231>>, <<8234, 8238>>, <<8288, 8292>>,
     <<8294, 8303>>, <<8305, 8305>>, <<8319, 8319>>, <<8336, 8348>>, <<8400, 8432>>,
     <<11388, 11389>>, <<11503, 11505>>, <<11631, 11631>>, <<11647, 11647>>, <<11744, 11775>>,
     <<11823, 11823>>, <<12293, 12293>>, <<12330, 12333>>, <<12337, 12341>>, <<12347, 12347>>,
     <<12441, 12446>>, <<12540, 12542>>, <<40981, 40981>>, <<42232, 42237>>, <<42508, 42508>>,
     <<42607, 42610>>, <<42612, 42621>>, <<42623, 42623>>, <<42652, 42655>>, <<42736, 42737>>,
     <<42752, 42785>>, <<42864, 42864>>, <<42888, 42890>>, <<42993, 42996>>, <<43000, 43001>>,
     <<43010, 43010>>, <<43014, 43014>>, <<43019, 43019>>, <<43045, 43046>>, <<43052, 43052>>,
     <<43204, 43205>>, <<43232, 43249>>, <<43263, 43263>>, <<43302, 43309>>, <<43335, 43345>>,
     <<43392, 43394>>, <<43443, 43443>>, <<43446, 43449>>, <<43452, 43453>>, <<43471, 43471>>,
     <<43493, 43494>>, <<43561, 43566>>, <<43569, 43570>>, <<43573, 43574>>, <<43587, 43587>>,
     <<43596, 43596>>, <<43632, 43632>>, <<43644, 43644>>, <<43696, 43696>>, <<43698, 43700>>,
     <<43703, 43704>>, <<43710, 43711>>, <<43713, 43713>>, <<43741, 43741>>, <<43756, 43757>>,
     <<43763, 43764>>, <<43766, 43766>>, <<43867, 43871>>, <<43881, 43883>>, <<44005, 44005>>,
     <<44008, 44008>>, <<44013, 44013>>, <<64286, 64286>>, <<64434, 64450>>, <<65024, 65039>>,
     <<65043, 65043>>, <<65056, 65071>>, <<65106, 65106>>, <<65109, 65109>>, <<65279, 65279>>,
     <<65287, 65287>>, <<65294, 65294>>, <<65306, 65306>>, <<65342, 65342>>, <<65344, 65344>>,
     <<65392, 65392>>, <<65438, 65439>>, <<65507, 65507>>, <<65529, 65531>>, <<66045, 66045>>,
     <<66272, 66272>>, <<66422, 66426>>, <<67456, 67461>>, <<67463, 67504>>, <<67506, 67514>>,
     <<68097, 68099>>, <<68101, 68102>>, <<68108, 68111>>, <<68152, 68154>>, <<68159, 68159>>,
     <<68325, 68326>>, <<68900, 68903>>, <<68942, 68942>>, <<68969, 68973>>, <<68975, 68975>>,
     <<69291, 69292>>, <<69317, 69317>>, <<69370, 69375>>, <<69446, 69456>>, <<69506, 69509>>,
     <<69633, 69633>>, <<69688, 69702>>, <<69744, 69744>>, <<69747, 69748>>, <<69759, 69761>>,
     <<69811, 69814>>, <<69817, 69818>>, <<69821, 69821>>, <<69826, 69826>>, <<69837, 69837>>,
     <<69888, 69890>>, <<69927, 69931>>, <<69933, 69940>>, <<70003, 70003>>, <<70016, 70017>>,
     <<70070, 70078>>, <<70089, 70092>>, <<70095, 70095>>, <<70191, 70193>>, <<70196, 70196>>,
     <<70198, 70199>>, <<70206, 70206>>, <<70209, 70209>>, <<70367, 70367>>, <<70371, 70378>>,
     <<70400, 70401>>, <<70459, 70460>>, <<70464, 70464>>, <<70502, 70508>>, <<70512, 70516>>,
     <<70587, 70592>>, <<70606, 70606>>, <<70608, 70608>>, <<70610, 70610>>, <<70625, 70626>>,
     <<70712, 70719>>, <<70722, 70724>>, <<70726, 70726>>, <<70750, 70750>>, <<70835, 70840>>,
     <<70842, 70842>>, <<70847, 70848>>, <<70850, 70851>>, <<71090, 71093>>, <<71100, 71101>>,
     <<71103, 71104>>, <<71132, 71133>>, <<71219, 71226>>, <<71229, 71229>>, <<71231, 71232>>,
     <<71339, 71339>>, <<71341, 71341>>, <<71344, 71349>>, <<71351, 71351>>, <<71453, 71453>>,
     <<71455, 71455>>, <<71458, 71461>>, <<71463, 71467>>, <<71727, 71735>>, <<71737, 71738>>,
     <<71995, 71996>>, <<71998, 71998>>, <<72003, 72003>>, <<72148, 72151>>, <<72154, 72155>>,
     <<72160, 72160>>, <<72193, 72202>>, <<72243, 72248>>, <<72251, 72254>>, <<72263, 72263>>,
     <<72273, 72278>>, <<72281, 72283>>, <<72330, 72342>>, <<72344, 72345>>, <<72544, 72544>>,
     <<72546, 72548>>, <<72550, 72550>>, <<72752, 72758>>, <<72760, 72765>>, <<72767, 72767>>,
     <<72850, 72871>>, <<72874, 72880>>, <<72882, 72883>>, <<72885, 72886>>, <<73009, 73014>>,
     <<73018, 73018>>, <<73020, 73021>>, <<73023, 73029>>, <<73031, 73031>>, <<73104, 73105>>,
     <<73109, 73109>>, <<73111, 73111>>, <<73177, 73177>>, <<73459, 73460>>, <<73472, 73473>>,
     <<73526, 73530>>, <<73536, 73536>>, <<73538, 73538>>, <<73562, 73562>>, <<78896, 78912>>,
     <<78919, 78933>>, <<90398, 90409>>, <<90413, 90415>>, <<92912, 92916>>, <<92976, 92982>>,
     <<92992, 92995>>, <<93504, 93506>>, <<93547, 93548>>, <<94031, 94031>>, <<94095, 94111>>,
     <<94176, 94177>>, <<94179, 94180>>, <<94194, 94195>>, <<110576, 110579>>, <<110581, 110587>>,
     <<110589, 110590>>, <<113821, 113822>>, <<113824, 113827>>, <<118528, 118573>>, <<118576, 118598>>,
     <<119143, 119145>>, <<119155, 119170>>, <<119173, 119179>>, <<119210, 119213>>, <<119362, 119364>>,
     <<121344, 121398>>, <<121403, 121452>>, <<121461, 121461>>, <<121476, 121476>>, <<121499, 121503>>,
     <<121505, 121519>>, <<122880, 122886>>, <<122888, 122904>>, <<122907, 122913>>, <<122915, 122916>>,
     <<122918, 122922>>, <<122928, 122989>>, <<123023, 123023>>, <<123184, 123197>>, <<123566, 123566>>,
     <<123628, 123631>>, <<124139, 124143>>, <<124398, 124399>>, <<124643, 124643>>, <<124646, 124646>>,
     <<124654, 124655>>, <<124661, 124661>>, <<124671, 124671>>, <<125136, 125142>>, <<125252, 125259>>,
     <<127995, 127999>>, <<917505, 917505>>, <<917536, 917631>>, <<917760, 917999>>}

ConCaja == UNION {r[1]..r[2] : r \in RangosConCaja}

Ignorables == UNION {r[1]..r[2] : r \in RangosIgnorables}

Mayusculas ==
    UNION {{q \in r[1]..r[2] : (q - r[1]) % r[3] = 0} : r \in ReglasMinuscula}

DeltaMinuscula ==
    [p \in Mayusculas |->
        (CHOOSE r \in ReglasMinuscula :
            p >= r[1] /\ p <= r[2] /\ (p - r[1]) % r[3] = 0)[4]]

\* the lowercase of one code point, as code units: U+0130 becomes "i"
\* followed by U+0307 (SpecialCasing), the others follow the simple mapping
Minuscula(p) ==
    IF p = 304 THEN <<105, 775>>
    ELSE IF p \in Mayusculas THEN Unidades(p + DeltaMinuscula[p])
    ELSE Unidades(p)

\* Final_Sigma: the code point that starts at i is preceded by a cased letter
\* and then case-ignorable code points only, and is not followed by
\* case-ignorable code points and then a cased letter
SigmaFinal(s, i) ==
    /\ \E j \in 1..(i - 1) :
          /\ ~SegundaMitad(s, j) /\ PuntoEn(s, j) \in ConCaja
          /\ \A k \in (j + 1)..(i - 1) : SegundaMitad(s, k) \/ PuntoEn(s, k) \in Ignorables
    /\ ~\E j \in (i + 1)..Len(s) :
          /\ ~SegundaMitad(s, j) /\ PuntoEn(s, j) \in ConCaja
          /\ \A k \in (i + 1)..(j - 1) : SegundaMitad(s, k) \/ PuntoEn(s, k) \in Ignorables

\* the lowercase of the code point that starts at the code unit i: capital
\* sigma U+03A3 becomes U+03C2 in final position and U+03C3 elsewhere
MinusculaEn(s, i) ==
    IF s[i] = 931 THEN (IF SigmaFinal(s, i) THEN <<962>> ELSE <<963>>)
    ELSE Minuscula(PuntoEn(s, i))

\* the code units desde..hasta of the text, lowered half by half; the second
\* half of a surrogate pair went with the first
RECURSIVE LowercaseEntre(_, _, _)
LowercaseEntre(s, desde, hasta) ==
    IF desde > hasta THEN <<>>
    ELSE IF desde = hasta
         THEN (IF SegundaMitad(s, desde) THEN <<>> ELSE MinusculaEn(s, desde))
    ELSE LowercaseEntre(s, desde, (desde + hasta) \div 2)
         \o LowercaseEntre(s, (desde + hasta) \div 2 + 1, hasta)

\* String.prototype.toLowerCase (the text is a value, bound once): unit by
\* unit when the text is ASCII
Lowercase(s) ==
    CHOOSE r \in {IF \A i \in 1..Len(v) : v[i] < 128
                  THEN [i \in 1..Len(v) |-> IF EnRango(v[i], 65, 90) THEN v[i] + 32 ELSE v[i]]
                  ELSE LowercaseEntre(v, 1, Len(v)) : v \in {s}} : TRUE

\* String.prototype.split(sep) for a one-character separator
RECURSIVE Split(_, _)
Split(s, sep) ==
    IF \A i \in 1..Len(s) : s[i] # sep THEN <<s>>
    ELSE LET p == CHOOSE i \in 1..Len(s) : s[i] = sep /\ \A j \in 1..(i - 1) : s[j] # sep
         IN  <<SubSeq(s, 1, p - 1)>> \o Split(SubSeq(s, p + 1, Len(s)), sep)

\* Array.prototype.join(sep) for a one-character separator
RECURSIVE Join(_, _)
Join(ps, sep) ==
    IF ps = <<>> THEN <<>>
    ELSE IF Len(ps) = 1 THEN ps[1]
    ELSE ps[1] \o <<sep>> \o Join(Tail(ps), sep)

\* the bytes a code unit adds to the UTF-8 encoding (each half of a surrogate
\* pair is half of a four-byte character)
Bytes(c) ==
    IF c < 128 THEN 1 ELSE IF c < 2048 \/ EnRango(c, 55296, 57343) THEN 2 ELSE 3

\* what encodeURI(s) raises on a surrogate that is half of no pair
URIError == "URIError"

\* isByteLength measures encodeURI(str).split(/%..|./).length - 1: the number
\* of bytes of the UTF-8 encoding, or the URIError when the text has none
ByteLength(s) ==
    IF SustitutoSuelto(s) THEN URIError
    ELSE IF \A i \in 1..Len(s) : s[i] < 128 THEN Len(s)
    ELSE Len(s) + Cardinality({i \in 1..Len(s) : Bytes(s[i]) >= 2})
                + Cardinality({i \in 1..Len(s) : Bytes(s[i]) = 3})

-----------------------------------------------------------------------------
(* Field validators of POST /api/appointments *)

\* the length isLength measures: the code units, less the variation selectors
\* U+FE0E and U+FE0F, with a surrogate pair counted once
Largo(s) ==
    Len(s) - Cardinality({i \in 1..Len(s) : s[i] \in {65038, 65039}})
           - Cardinality({i \in 1..(Len(s) - 1) :
                             EnRango(s[i], 55296, 56319) /\ EnRango(s[i + 1], 56320, 57343)})

NombreValido(n) == \E l \in {Largo(Trim(n))} : l >= 2 /\ l <= 100

\* validator.js isEmail() with its default options: at most 254 code units;
\* the text after the last "@" is a fully qualified domain name with a
\* top-level domain; the text before it is either quoted or a dot-separated
\* sequence of non-empty atoms.

\* \u00A1-\uD7FF \uF900-\uFDCF \uFDF0-\uFFEF
EsUtf8(c) == EnRango(c, 161, 55295) \/ EnRango(c, 63744, 64975) \/ EnRango(c, 65008, 65519)

\* ! # $ % & ' * + - / = ? ^ _ ` { | } ~
SimbolosUsuario ==
    {Cod("!"), Cod("#"), Cod("$"), Cod("%"), Cod("&"), Cod("'"), Cod("*"), Cod("+"),
     Cod("-"), Cod("/"), Cod("="), Cod("?"), Cod("^"), Cod("_"), 96, Cod("{"), Cod("|"),
     Cod("}"), Cod("~")}

\* emailUserUtf8Part: /^[a-z\d!#\$%&'\*\+\-\/=\?\^_`{\|}~\u00A1-\uD7FF\uF900-\uFDCF\uFDF0-\uFFEF]+$/i
CaracterUsuario(c) == EsLetraAZ(c) \/ EsDigito(c) \/ c \in SimbolosUsuario \/ EsUtf8(c)

\* the characters a host name part may hold: /^[a-z_\u00A1-\uFFFF0-9-]+$/i
\* without the full-width characters U+FF01..U+FF5E and, since underscores
\* are not allowed, without "_"
CaracterEtiqueta(c) ==
    /\ EsLetraAZ(c) \/ EsDigito(c) \/ c = Cod("-") \/ EnRango(c, 161, 65535)
    /\ ~EnRango(c, 65281, 65374)

\* [a-z\u00A1-\u00A8\u00AA-\uD7FF\uF900-\uFDCF\uFDF0-\uFFEF]
CaracterTld(c) ==
    \/ EsLetraAZ(c)
    \/ EnRango(c, 161, 168) \/ EnRango(c, 170, 55295)
    \/ EnRango(c, 63744, 64975) \/ EnRango(c, 65008, 65519)

\* [a-z0-9-]
CaracterPunycode(c) == EsLetraAZ(c) \/ EsDigito(c) \/ c = Cod("-")

\* /^([a-z\u00A1-\u00A8\u00AA-\uD7FF\uF900-\uFDCF\uFDF0-\uFFEF]{2,}|xn[a-z0-9-]{2,})$/i,
\* no white space, not all digits
TldValido(t) ==
    /\ \/ Len(t) >= 2 /\ (\A k \in 1..Len(t) : CaracterTld(t[k]))
       \/ /\ Len(t) >= 4
          /\ t[1] \in {Cod("x"), Cod("X")} /\ t[2] \in {Cod("n"), Cod("N")}
          /\ \A k \in 3..Len(t) : CaracterPunycode(t[k])
    /\ \A i \in 1..Len(t) : ~EsBlanco(t[i])
    /\ ~(\A k \in 1..Len(t) : EsDigito(t[k]))

EtiquetaValida(p) ==
    /\ Len(p) >= 1 /\ Len(p) <= 63
    /\ (\A k \in 1..Len(p) : CaracterEtiqueta(p[k]))
    /\ p[1] # Cod("-") /\ p[Len(p)] # Cod("-")

IsFQDN(d) ==
    LET ps == Split(d, Cod("."))
    IN  /\ Len(ps) >= 2
        /\ TldValido(ps[Len(ps)])
        /\ \A i \in 1..Len(ps) : EtiquetaValida(ps[i])

\* quotedEmailUserUtf8: a quoted local part is a run of plain characters
\* [\s\x01-\x08\x0b\x0c\x0e-\x1f\x7f\x21\x23-\x5b\x5d-\x7e\u00A0-\uD7FF\uF900-\uFDCF\uFDF0-\uFFEF]
\* and of pairs of a backslash and one of
\* [\x01-\x09\x0b\x0c\x0d-\x7f\u00A0-\uD7FF\uF900-\uFDCF\uFDF0-\uFFEF]
CitadoPlano(c) ==
    \/ EsBlanco(c)
    \/ EnRango(c, 1, 8) \/ c = 11 \/ c = 12 \/ EnRango(c, 14, 31) \/ c = 127
    \/ c = 33 \/ EnRango(c, 35, 91) \/ EnRango(c, 93, 126)
    \/ c = 160 \/ EsUtf8(c)

CitadoEscapado(c) ==
    \/ EnRango(c, 1, 9) \/ c = 11 \/ c = 12 \/ EnRango(c, 13, 127)
    \/ c = 160 \/ EsUtf8(c)

RECURSIVE UsuarioCitado(_)
UsuarioCitado(u) ==
    IF u = <<>> THEN TRUE
    ELSE IF CitadoPlano(Head(u)) THEN UsuarioCitado(Tail(u))
    ELSE IF Head(u) = Cod("\\") /\ Len(u) >= 2 /\ CitadoEscapado(u[2])
         THEN UsuarioCitado(SubSeq(u, 3, Len(u)))
    ELSE FALSE

\* email.split('@'): the domain is what follows the last "@" (the whole text
\* when there is none), the user what precedes it
UltimaArroba(e) ==
    IF \A i \in 1..Len(e) : e[i] # Cod("@") THEN 0
    ELSE CHOOSE i \in 1..Len(e) : e[i] = Cod("@") /\ \A j \in (i + 1)..Len(e) : e[j] # Cod("@")

\* isEmail() does not return but raises the URIError of isByteLength: of the
\* user part, or of the domain once the user part passed its 64 bytes
IsEmailLanza(e) ==
    /\ Len(e) <= 254
    /\ LET a == UltimaArroba(e)
           usuario == SubSeq(e, 1, a - 1)
           dominio == SubSeq(e, a + 1, Len(e))
       IN  \/ SustitutoSuelto(usuario)
           \/ ByteLength(usuario) <= 64 /\ SustitutoSuelto(dominio)

\* what isEmail() returns, when it returns
IsEmail(e) ==
    /\ Len(e) <= 254
    /\ ~IsEmailLanza(e)
    /\ LET a == UltimaArroba(e)
           usuario == SubSeq(e, 1, a - 1)
           dominio == SubSeq(e, a + 1, Len(e))
           atomos == Split(usuario, Cod("."))
       IN  /\ a # 0
           /\ ByteLength(usuario) <= 64 /\ ByteLength(dominio) <= 254
           /\ IsFQDN(dominio)
           /\ IF usuario # <<>> /\ usuario[1] = Cod("\"") /\ usuario[Len(usuario)] = Cod("\"")
              THEN UsuarioCitado(SubSeq(usuario, 2, Len(usuario) - 1))
              ELSE \A i \in 1..Len(atomos) :
                      Len(atomos[i]) >= 1 /\ (\A k \in 1..Len(atomos[i]) : CaracterUsuario(atomos[i][k]))

\* validator.js normalizeEmail() with its default options
GmailDomains ==
    {Texto(<<"g", "m", "a", "i", "l", ".", "c", "o", "m">>),
     Texto(<<"g", "o", "o", "g", "l", "e", "m", "a", "i", "l", ".", "c", "o", "m">>)}

IcloudDomains ==
    {Texto(<<"i", "c", "l", "o", "u", "d", ".", "c", "o", "m">>),
     Texto(<<"m", "e", ".", "c", "o", "m">>)}

OutlookDomains ==
    {Texto(<<"h", "o", "t", "m", "a", "i", "l", ".", "a", "t">>),
     Texto(<<"h", "o", "t", "m", "a", "i", "l", ".", "b", "e">>),
     Texto(<<"h", "o", "t", "m", "a", "i", "l", ".", "c", "a">>),
     Texto(<<"h", "o", "t", "m", "a", "i", "l", ".", "c", "l">>),
     Texto(<<"h", "o", "t", "m", "a", "i", "l", ".", "c", "o", ".", "i", "l">>),
     Texto(<<"h", "o", "t", "m", "a", "i", "l", ".", "c", "o", ".", "n", "z">>),
     Texto(<<"h", "o", "t", "m", "a", "i", "l", ".", "c", "o", ".", "t", "h">>),
     Texto(<<"h", "o", "t", "m", "a", "i", "l", ".", "c", "o", ".", "u", "k">>),
     Texto(<<"h", "o", "t", "m", "a", "i", "l", ".", "c", "o", "m">>),
     Texto(<<"h", "o", "t", "m", "a", "i", "l", ".", "c", "o", "m", ".", "a", "r">>),
     Texto(<<"h", "o", "t", "m", "a", "i", "l", ".", "c", "o", "m", ".", "a", "u">>),
     Texto(<<"h", "o", "t", "m", "a", "i", "l", ".", "c", "o", "m", ".", "b", "r">>),
     Texto(<<"h", "o", "t", "m", "a", "i", "l", ".", "c", "o", "m", ".", "g", "r">>),
     Texto(<<"h", "o", "t", "m", "a", "i", "l", ".", "c", "o", "m", ".", "m", "x">>),
     Texto(<<"h", "o", "t", "m", "a", "i", "l", ".", "c", "o", "m", ".", "p", "e">>),
     Texto(<<"h", "o", "t", "m", "a", "i", "l", ".", "c", "o", "m", ".", "t", "r">>),
     Texto(<<"h", "o", "t", "m", "a", "i", "l", ".", "c", "o", "m", ".", "v", "n">>),
     Texto(<<"h", "o", "t", "m", "a", "i", "l", ".", "c", "z">>),
     Texto(<<"h", "o", "t", "m", "a", "i", "l", ".", "d", "e">>),
     Texto(<<"h", "o", "t", "m", "a", "i", "l", ".", "d", "k">>),
     Texto(<<"h", "o", "t", "m", "a", "i", "l", ".", "e", "s">>),
     Texto(<<"h", "o", "t", "m", "a", "i", "l", ".", "f", "r">>),
     Texto(<<"h", "o", "t", "m", "a", "i", "l", ".", "h", "u">>),
     Texto(<<"h", "o", "t", "m", "a", "i", "l", ".", "i", "d">>),
     Texto(<<"h", "o", "t", "m", "a", "i", "l", ".", "i", "e">>),
     Texto(<<"h", "o", "t", "m", "a", "i", "l", ".", "i", "n">>),
     Texto(<<"h", "o", "t", "m", "a", "i", "l", ".", "i", "t">>),
     Texto(<<"h", "o", "t", "m", "a", "i", "l", ".", "j", "p">>),
     Texto(<<"h", "o", "t", "m", "a", "i", "l", ".", "k", "r">>),
     Texto(<<"h", "o", "t", "m", "a", "i", "l", ".", "l", "v">>),
     Texto(<<"h", "o", "t", "m", "a", "i", "l", ".", "m", "y">>),
     Texto(<<"h", "o", "t", "m", "a", "i", "l", ".", "p", "h">>),
     Texto(<<"h", "o", "t", "m", "a", "i", "l", ".", "p", "t">>),
     Texto(<<"h", "o", "t", "m", "a", "i", "l", ".", "s", "a">>),
     Texto(<<"h", "o", "t", "m", "a", "i", "l", ".", "s", "g">>),
     Texto(<<"h", "o", "t", "m", "a", "i", "l", ".", "s", "k">>),
     Texto(<<"l", "i", "v", "e", ".", "b", "e">>),
     Texto(<<"l", "i", "v", "e", ".", "c", "o", ".", "u", "k">>),
     Texto(<<"l", "i", "v", "e", ".", "c", "o", "m">>),
     Texto(<<"l", "i", "v", "e", ".", "c", "o", "m", ".", "a", "r">>),
     Texto(<<"l", "i", "v", "e", ".", "c", "o", "m", ".", "m", "x">>),
     Texto(<<"l", "i", "v", "e", ".", "d", "e">>),
     Texto(<<"l", "i", "v", "e", ".", "e", "s">>),
     Texto(<<"l", "i", "v", "e", ".", "e", "u">>),
     Texto(<<"l", "i", "v", "e", ".", "f", "r">>),
     Texto(<<"l", "i", "v", "e", ".", "i", "t">>),
     Texto(<<"l", "i", "v", "e", ".", "n", "l">>),
     Texto(<<"l", "i", "v", "e", ".", "n", "o">>),
     Texto(<<"l", "i", "v", "e", ".", "s", "e">>),
     Texto(<<"m", "s", "n", ".", "c", "o", "m">>),
     Texto(<<"o", "u", "t", "l", "o", "o", "k", ".", "a", "t">>),
     Texto(<<"o", "u", "t", "l", "o", "o", "k", ".", "b", "e">>),
     Texto(<<"o", "u", "t", "l", "o", "o", "k", ".", "c", "l">>),
     Texto(<<"o", "u", "t", "l", "o", "o", "k", ".", "c", "o", ".", "i", "l">>),
     Texto(<<"o", "u", "t", "l", "o", "o", "k", ".", "c", "o", ".", "n", "z">>),
     Texto(<<"o", "u", "t", "l", "o", "o", "k", ".", "c", "o", ".", "t", "h">>),
     Texto(<<"o", "u", "t", "l", "o", "o", "k", ".", "c", "o", "m">>),
     Texto(<<"o", "u", "t", "l", "o", "o", "k", ".", "c", "o", "m", ".", "a", "r">>),
     Texto(<<"o", "u", "t", "l", "o", "o", "k", ".", "c", "o", "m", ".", "a", "u">>),
     Texto(<<"o", "u", "t", "l", "o", "o", "k", ".", "c", "o", "m", ".", "b", "r">>),
     Texto(<<"o", "u", "t", "l", "o", "o", "k", ".", "c", "o", "m", ".", "g", "r">>),
     Texto(<<"o", "u", "t", "l", "o", "o", "k", ".", "c", "o", "m", ".", "p", "e">>),
     Texto(<<"o", "u", "t", "l", "o", "o", "k", ".", "c", "o", "m", ".", "t", "r">>),
     Texto(<<"o", "u", "t", "l", "o", "o", "k", ".", "c", "o", "m", ".", "v", "n">>),
     Texto(<<"o", "u", "t", "l", "o", "o", "k", ".", "c", "z">>),
     Texto(<<"o", "u", "t", "l", "o", "o", "k", ".", "d", "e">>),
     Texto(<<"o", "u", "t", "l", "o", "o", "k", ".", "d", "k">>),
     Texto(<<"o", "u", "t", "l", "o", "o", "k", ".", "e", "s">>),
     Texto(<<"o", "u", "t", "l", "o", "o", "k", ".", "f", "r">>),
     Texto(<<"o", "u", "t", "l", "o", "o", "k", ".", "h", "u">>),
     Texto(<<"o", "u", "t", "l", "o", "o", "k", ".", "i", "d">>),
     Texto(<<"o", "u", "t", "l", "o", "o", "k", ".", "i", "e">>),
     Texto(<<"o", "u", "t", "l", "o", "o", "k", ".", "i", "n">>),
     Texto(<<"o", "u", "t", "l", "o", "o", "k", ".", "i", "t">>),
     Texto(<<"o", "u", "t", "l", "o", "o", "k", ".", "j", "p">>),
     Texto(<<"o", "u", "t", "l", "o", "o", "k", ".", "k", "r">>),
     Texto(<<"o", "u", "t", "l", "o", "o", "k", ".", "l", "v">>),
     Texto(<<"o", "u", "t", "l", "o", "o", "k", ".", "m", "y">>),
     Texto(<<"o", "u", "t", "l", "o", "o", "k", ".", "p", "h">>),
     Texto(<<"o", "u", "t", "l", "o", "o", "k", ".", "p", "t">>),
     Texto(<<"o", "u", "t", "l", "o", "o", "k", ".", "s", "a">>),
     Texto(<<"o", "u", "t", "l", "o", "o", "k", ".", "s", "g">>),
     Texto(<<"o", "u", "t", "l", "o", "o", "k", ".", "s", "k">>),
     Texto(<<"p", "a", "s", "s", "p", "o", "r", "t", ".", "c", "o", "m">>)}

YahooDomains ==
    {Texto(<<"r", "o", "c", "k", "e", "t", "m", "a", "i", "l", ".", "c", "o", "m">>),
     Texto(<<"y", "a", "h", "o", "o", ".", "c", "a">>),
     Texto(<<"y", "a", "h", "o", "o", ".", "c", "o", ".", "u", "k">>),
     Texto(<<"y", "a", "h", "o", "o", ".", "c", "o", "m">>),
     Texto(<<"y", "a", "h", "o", "o", ".", "d", "e">>),
     Texto(<<"y", "a", "h", "o", "o", ".", "f", "r">>),
     Texto(<<"y", "a", "h", "o", "o", ".", "i", "n">>),
     Texto(<<"y", "a", "h", "o", "o", ".", "i", "t">>),
     Texto(<<"y", "m", "a", "i", "l", ".", "c", "o", "m">>)}

YandexDomains ==
    {Texto(<<"y", "a", "n", "d", "e", "x", ".", "r", "u">>),
     Texto(<<"y", "a", "n", "d", "e", "x", ".", "u", "a">>),
     Texto(<<"y", "a", "n", "d", "e", "x", ".", "k", "z">>),
     Texto(<<"y", "a", "n", "d", "e", "x", ".", "c", "o", "m">>),
     Texto(<<"y", "a", "n", "d", "e", "x", ".", "b", "y">>),
     Texto(<<"y", "a", ".", "r", "u">>)}

\* what normalizeEmail answers when nothing is left of the local part
SinUsuario == <<>>

\* user.replace(/\.+/g, m => m.length > 1 ? m : ''): a dot that stands alone goes
PuntoSuelto(u, i) ==
    /\ u[i] = Cod(".")
    /\ ~(i > 1 /\ u[i - 1] = Cod("."))
    /\ ~(i < Len(u) /\ u[i + 1] = Cod("."))

\* the code units desde..hasta of the text without their lone dots, half by
\* half
RECURSIVE QuitarPuntos(_, _, _)
QuitarPuntos(u, desde, hasta) ==
    IF desde > hasta THEN <<>>
    ELSE IF desde = hasta THEN (IF PuntoSuelto(u, desde) THEN <<>> ELSE <<u[desde]>>)
    ELSE QuitarPuntos(u, desde, (desde + hasta) \div 2)
         \o QuitarPuntos(u, (desde + hasta) \div 2 + 1, hasta)

\* (the text is a value, bound once)
SinPuntos(u) == CHOOSE r \in {QuitarPuntos(v, 1, Len(v)) : v \in {u}} : TRUE

\* the local part up to the last "-": the yahoo address without its keyword
SinUltimoGuion(u) ==
    LET cs == Split(u, Cod("-"))
    IN  IF Len(cs) > 1 THEN Join(SubSeq(cs, 1, Len(cs) - 1), Cod("-")) ELSE cs[1]

NormalizarPartes(usuario, dominio) ==
    LET sinMas == Split(usuario, Cod("+"))[1]
        De(u, d) == IF u = <<>> THEN SinUsuario ELSE Lowercase(u) \o <<Cod("@")>> \o d
    IN  IF dominio \in GmailDomains
          THEN De(SinPuntos(sinMas),
                  Texto(<<"g", "m", "a", "i", "l", ".", "c", "o", "m">>))
        ELSE IF dominio \in IcloudDomains THEN De(sinMas, dominio)
        ELSE IF dominio \in OutlookDomains THEN De(sinMas, dominio)
        ELSE IF dominio \in YahooDomains THEN De(SinUltimoGuion(usuario), dominio)
        ELSE IF dominio \in YandexDomains
          THEN Lowercase(usuario) \o <<Cod("@")>>
               \o Texto(<<"y", "a", "n", "d", "e", "x", ".", "r", "u">>)
        ELSE Lowercase(usuario) \o <<Cod("@")>> \o dominio

\* (the user and the lowered domain are values, bound once)
NormalizeEmail(e) ==
    CHOOSE r \in {NormalizarPartes(u, d) :
                    u \in {SubSeq(e, 1, UltimaArroba(e) - 1)},
                    d \in {Lowercase(SubSeq(e, UltimaArroba(e) + 1, Len(e)))}} : TRUE

\* the String cast of the schema: the boolean false becomes the text "false"
CastString(v) == IF v = SinUsuario THEN Texto(<<"f", "a", "l", "s", "e">>) ELSE v

TelefonoValido(t) ==
    /\ Len(t) = 12
    /\ SubSeq(t, 1, 4) = Texto(<<"+", "5", "0", "3">>)
    /\ \A i \in 5..12 : EsDigito(t[i])

ServicioValido(s) == s \in Servicios

HorarioValido(h) == \E i \in 1..Len(Horarios) : Horarios[i] = h

\* The texts a request may send as fecha
SoloFecha(d) == [forma |-> "fecha", dia |-> d, hora |-> 0]
FechaHora(d, h) == [forma |-> "fechaHora", dia |-> d, hora |-> h]
\* a date written as no ISO 8601 string that Date.parse reads all the same,
\* such as "November 2, 2025"
FechaTexto(d) == [forma |-> "texto", dia |-> d, hora |-> 0]
NoFecha == [forma |-> "otra", dia |-> 0, hora |-> 0]

IsISO8601(f) == f.forma \in {"fecha", "fechaHora"}

\* Date.prototype.getTimezoneOffset at the instant t, as hours east of UTC
Desfase(z, t) == IF t < z.cambio THEN z.antes ELSE z.despues

\* the server's wall clock (hours since the epoch, local) at the instant t
HoraLocal(t, z) == t + Desfase(z, t)

\* The instant of a wall-clock time w (what setHours resolves to): a time the
\* clocks show twice is the later instant unless it is before the change, a
\* time they skip is moved past the gap.
UTCDe(w, z) ==
    IF w - z.antes < z.cambio THEN w - z.antes
    ELSE IF w - z.despues >= z.cambio THEN w - z.despues
    ELSE w - z.antes

\* toDate() is new Date(Date.parse(text)) on a server of time zone z: a
\* date-only ISO string parses to midnight UTC of that day, a date-time with
\* Z to that instant, a date in another notation to midnight of that day on
\* the server's wall clock; what Date.parse cannot read becomes null, which
\* compares as 0.
ToDate(f, z) ==
    CASE f.forma = "fecha" -> f.dia * HorasPorDia
      [] f.forma = "fechaHora" -> f.dia * HorasPorDia + f.hora
      [] f.forma = "texto" -> UTCDe(f.dia * HorasPorDia, z)
      [] OTHER -> 0

\* new Date(); setHours(0, 0, 0, 0): midnight of the server's local day.
MedianocheLocal(t, z) == UTCDe((HoraLocal(t, z) \div HorasPorDia) * HorasPorDia, z)

FechaEnPasado(fecha, t, z) == fecha < MedianocheLocal(t, z)

\* A validation chain does not finish when one of its standard validators
\* raises an exception: the chain hands it to next(err).  isEmail() is the one
\* that can.
ValidacionLanza(b) == IsEmailLanza(b.email)

\* validationResult(req).array() once every chain has finished: one entry per
\* failed validator, in order.
Errores(b, t, z) ==
       (IF NombreValido(b.nombreCompleto) THEN <<>> ELSE <<"nombreCompleto">>)
    \o (IF IsEmail(b.email) THEN <<>> ELSE <<"email">>)
    \o (IF TelefonoValido(b.telefono) THEN <<>> ELSE <<"telefono">>)
    \o (IF ServicioValido(b.tipoServicio) THEN <<>> ELSE <<"tipoServicio">>)
    \o (IF IsISO8601(b.fecha) THEN <<>> ELSE <<"fecha">>)
    \o (IF FechaEnPasado(ToDate(b.fecha, z), t, z) THEN <<"fecha">> ELSE <<>>)
    \o (IF HorarioValido(b.horario) THEN <<>> ELSE <<"horario">>)

-----------------------------------------------------------------------------
(* The Cita collection *)

\* Cita.findOne({fecha, horario, estado: 'confirmada'})
ExisteConfirmada(cs, f, h) ==
    \E i \in 1..Len(cs) : cs[i].fecha = f /\ cs[i].horario = h /\ cs[i].estado = "confirmada"

\* citaSchema.index({fecha: 1, horario: 1}, {unique: true})
ClaveDuplicada(cs, f, h) ==
    \E i \in 1..Len(cs) : cs[i].fecha = f /\ cs[i].horario = h

\* the text fields of req.body once the validation chains have run: trim()
\* and normalizeEmail() put their result in place of what was sent
Saneado(b) == [b EXCEPT !.nombreCompleto = Trim(@), !.email = NormalizeEmail(@)]

\* new Cita({...}) built from the sanitized request body (a value, bound
\* once), with the schema's cast, trim and lowercase, and its defaults
NuevaCita(id, b, t, z) ==
    CHOOSE c \in {[id |-> id,
                   nombreCompleto |-> Trim(s.nombreCompleto),
                   email |-> Lowercase(Trim(CastString(s.email))),
                   telefono |-> Trim(s.telefono),
                   tipoServicio |-> s.tipoServicio,
                   fecha |-> ToDate(s.fecha, z),
                   horario |-> s.horario,
                   estado |-> EstadoPorDefecto,
                   googleCalendarEventId |-> SinEvento,
                   fechaCreacion |-> t] : s \in {Saneado(b)}} : TRUE

\* Cita.find({estado: 'confirmada', fecha: {$gte: t}}, 'fecha horario').lean():
\* the projection keeps _id
Ocupadas(cs, t) ==
    {[id |-> cs[i].id, fecha |-> cs[i].fecha, horario |-> cs[i].horario] :
        i \in {j \in 1..Len(cs) : cs[j].estado = "confirmada" /\ cs[j].fecha >= t}}

-----------------------------------------------------------------------------
(* Calendar collaborator *)

\* timeZone: 'America/El_Salvador' is UTC-6 all year
ZonaClinica == -6

HoraDe(h) ==
    CASE h = "08:00" -> 8  [] h = "09:00" -> 9  [] h = "10:00" -> 10 [] h = "11:00" -> 11
      [] h = "13:00" -> 13 [] h = "14:00" -> 14 [] h = "15:00" -> 15 [] h = "16:00" -> 16

\* cita.fecha.toISOString().split('T')[0]: the UTC calendar day of the stored instant
DiaDe(fecha) == fecha \div HorasPorDia

\* new Date(`${dia}T${horario}:00.000Z`): the day and the slot read as UTC
InicioEvento(c) == DiaDe(c.fecha) * HorasPorDia + HoraDe(c.horario)

\* fechaFin.setHours(fechaFin.getHours() + 1): one hour later on the server's
\* wall clock
FinEvento(inicio, z) == UTCDe(HoraLocal(inicio, z) + 1, z)

\* The event crearEventoGoogleCalendar inserts
Evento(c, z) ==
    [cita |-> c.id,
     inicio |-> InicioEvento(c),
     fin |-> FinEvento(InicioEvento(c), z),
     borrado |-> FALSE]

-----------------------------------------------------------------------------
(* Request inputs *)

Ana == [nombreCompleto |-> Texto(<<"A", "n", "a", " ", "L">>),
        email |-> Texto(<<"A", "@", "e", ".", "c", "o">>),
        telefono |-> Texto(<<"+", "5", "0", "3", "7", "0", "0", "0", "1", "1", "1", "1">>),
        tipoServicio |-> "limpieza-dental"]

\* a name between a tab and a no-break space, an address that
\* normalizeEmail() rewrites (capitals, the first of them the Greek capital
\* epsilon U+0395, a dot, a subaddress)
Eva == [nombreCompleto |-> <<9>> \o Texto(<<"E", "v", "a">>) \o <<160>>,
        email |-> <<917>> \o Texto(<<".", "V", "+", "x", "@", "G", "m", "a", "i", "l", ".", "c", "o", "m">>),
        telefono |-> Texto(<<"+", "5", "0", "3", "7", "0", "0", "0", "2", "2", "2", "2">>),
        tipoServicio |-> "ortodoncia"]

Anonimo == [nombreCompleto |-> <<9>> \o Texto(<<"A">>) \o <<160>>,
            email |-> Texto(<<"a", "@", "e", ".", "c", "o">>),
            telefono |-> Texto(<<"7", "0", "0", "0", "1", "1", "1", "1">>),
            tipoServicio |-> "ortodoncia"]

Cuerpo(p, f, h) ==
    [nombreCompleto |-> p.nombreCompleto, email |-> p.email, telefono |-> p.telefono,
     tipoServicio |-> p.tipoServicio, fecha |-> f, horario |-> h]

\* the bodies of the booking requests: a valid patient on each day, then on an
\* unknown slot, and a patient with a bad name and phone on day 1 and on a
\* string that is no date
Cuerpos ==
    {Cuerpo(Ana, SoloFecha(d), "08:00") : d \in Dias}
        \cup {Cuerpo(Ana, SoloFecha(2), "12:00")}
        \cup {Cuerpo(Anonimo, f, "12:00") : f \in {SoloFecha(1), NoFecha}}

\* well-formed identifiers a cancel request may name (no appointment gets 2
\* while the store holds a single one)
IdsBienFormados == {1, 2}

\* a path parameter that is no ObjectId: findByIdAndUpdate rejects with a
\* CastError before it reaches the collection
IdMalformado == -1

IdsEntrada == IdsBienFormados \cup {IdMalformado}

CuerpoVacio == Cuerpo(Anonimo, NoFecha, "12:00")

-----------------------------------------------------------------------------
(* POST /api/appointments: one handler per request in flight *)

RespInicial == [status |-> 0, id |-> SinCita, googleCalendar |-> FALSE, sms |-> FALSE,
                errores |-> <<>>]

\* creada is Date.now() when new Cita({...}) ran
ReqInicial ==
    [pc |-> "idle", body |-> CuerpoVacio, alLlegar |-> "", rival |-> FALSE,
     creada |-> 0, cita |-> SinCita, googleEventId |-> SinEvento, smsEnviado |-> FALSE,
     calendarLlamado |-> FALSE, smsLlamado |-> FALSE, attachFallo |-> FALSE,
     falloAlmacen |-> FALSE, resp |-> RespInicial]

Responder(q, codigo) == [q EXCEPT !.pc = "done", !.resp.status = codigo]

\* The validation chains and validationResult(req): when a chain raised an
\* exception the handler never runs and the error middleware (lines 424-430)
\* answers 500 without an error list; otherwise 400 with the error list, or
\* on to the handler body
TrasValidar(q, lanza, e) ==
    IF lanza THEN Responder(q, 500)
    ELSE IF e # <<>>
    THEN [Responder(q, 400) EXCEPT !.resp.errores = e]
    ELSE [q EXCEPT !.pc = "findOne"]

\* What the request found on arrival (kept for the properties only): the state
\* of its (date, slot) and whether another request for the same (date, slot)
\* was in flight before its reservation save.
EstadoHorario(cs, f, h) ==
    IF \E i \in 1..Len(cs) : cs[i].fecha = f /\ cs[i].horario = h /\ cs[i].estado = "confirmada"
    THEN "ocupado"
    ELSE IF \E i \in 1..Len(cs) : cs[i].fecha = f /\ cs[i].horario = h
    THEN "cancelado"
    ELSE "vacio"

EnCarrera(q, b) ==
    /\ q.pc \in {"findOne", "save"}
    /\ ToDate(q.body.fecha, tz) = ToDate(b.fecha, tz) /\ q.body.horario = b.horario

Recibir(r, b) ==
    /\ req[r].pc = "idle"
    /\ recibidas < MaxSolicitudes
    /\ recibidas' = recibidas + 1
    /\ LET lanza == ValidacionLanza(b)
           e == Errores(b, now, tz)
           pasa == ~lanza /\ e = <<>>
           q == [ReqInicial EXCEPT
                    !.body = b,
                    !.alLlegar = IF pasa
                                 THEN EstadoHorario(citas, ToDate(b.fecha, tz), b.horario)
                                 ELSE "",
                    !.rival = pasa /\ \E o \in Reqs \ {r} : EnCarrera(req[o], b)]
       IN  req' = [o \in Reqs |->
                     IF o = r THEN TrasValidar(q, lanza, e)
                     ELSE IF pasa /\ EnCarrera(req[o], b)
                          THEN [req[o] EXCEPT !.rival = TRUE]
                          ELSE req[o]]
    /\ UNCHANGED <<citas, eventos, mensajes, can, ocupadas, now, tz, listado>>

\* the pre-check: 409 when a confirmed appointment holds the slot; otherwise
\* new Cita({...}) builds the document (its fechaCreacion defaults to the
\* clock t) and save() is called
TrasFindOne(q, existe, falla, t) ==
    IF falla THEN [Responder(q, 500) EXCEPT !.falloAlmacen = TRUE]
    ELSE IF existe THEN Responder(q, 409)
    ELSE [q EXCEPT !.pc = "save", !.creada = t]

BuscarExistente(r, falla) ==
    /\ req[r].pc = "findOne"
    /\ req' = [req EXCEPT ![r] =
                 TrasFindOne(@, ExisteConfirmada(citas, ToDate(@.body.fecha, tz), @.body.horario),
                             falla, now)]
    /\ UNCHANGED <<citas, eventos, mensajes, can, ocupadas, now, tz, recibidas, listado>>

TrasErrorGuardarSigue(q, duplicada) ==
    IF duplicada THEN [q EXCEPT !.pc = "calendar", !.calendarLlamado = TRUE]
    ELSE [Responder(q, 500) EXCEPT !.falloAlmacen = TRUE]

TrasErrorGuardarOcupado(q, duplicada) ==
    [Responder(q, 409) EXCEPT !.falloAlmacen = ~duplicada]

\* the catch block of the handler: duplicate key (11000) is 409, anything else 500
TrasErrorGuardar(q, duplicada) ==
    IF duplicada THEN Responder(q, 409)
    ELSE [Responder(q, 500) EXCEPT !.falloAlmacen = TRUE]

\* the reservation is stored; crearEventoGoogleCalendar builds the event and
\* awaits calendar.events.insert
TrasGuardar(q, id) == [q EXCEPT !.pc = "calendar", !.cita = id, !.calendarLlamado = TRUE]

Guardar(r, falla) ==
    /\ req[r].pc = "save"
    /\ LET q == req[r]
           duplicada == ClaveDuplicada(citas, ToDate(q.body.fecha, tz), q.body.horario)
           id == Len(citas) + 1
       IN  IF falla \/ duplicada
           THEN /\ req' = [req EXCEPT ![r] = TrasErrorGuardar(q, duplicada /\ ~falla)]
                /\ citas' = citas
           ELSE /\ citas' = Append(citas, NuevaCita(id, q.body, q.creada, tz))
                /\ req' = [req EXCEPT ![r] = TrasGuardar(q, id)]
    /\ UNCHANGED <<eventos, mensajes, can, ocupadas, now, tz, recibidas, listado>>

\* The part of the handler after the reservation save (lines 303-338):
\*   try { googleEventId = await crearEventoGoogleCalendar(nuevaCita);
\*         nuevaCita.googleCalendarEventId = googleEventId;
\*         await nuevaCita.save() } catch { log }
\*   try { await enviarSMSConfirmacion(nuevaCita); smsEnviado = true } catch { log }
\*   res.status(201).json({cita: {id, ...}, integraciones: {googleCalendar, sms}})
\* The handler returns to the event loop at each of the three awaits.

LlamarSMSOmitida(q) ==
    IF q.googleEventId = SinEvento
    THEN [Responder(q, 201) EXCEPT !.resp.id = q.cita]
    ELSE [q EXCEPT !.pc = "sms", !.smsLlamado = TRUE]

\* enviarSMSConfirmacion(nuevaCita) runs up to await twilioClient.messages.create
LlamarSMS(q) == [q EXCEPT !.pc = "sms", !.smsLlamado = TRUE]

\* events.insert has settled: with the event's id the handler assigns the
\* reference and calls the second save; a rejection is caught and logged
TrasCalendario(q, calOk, eid) ==
    IF calOk THEN [q EXCEPT !.pc = "attach", !.googleEventId = eid]
    ELSE LlamarSMS(q)

\* the second save has settled; its failure is caught and logged
TrasAdjuntar(q, saveOk) == LlamarSMS([q EXCEPT !.attachFallo = ~saveOk])

\* res.status(201).json(...)
Responder201(q) ==
    [Responder(q, 201) EXCEPT !.resp.id = q.cita,
                              !.resp.googleCalendar = (q.googleEventId # SinEvento),
                              !.resp.sms = q.smsEnviado]

TrasSMSSiempre(q, smsOk) == Responder201([q EXCEPT !.smsEnviado = TRUE])

\* messages.create has settled: smsEnviado = true unless it rejected
TrasSMS(q, smsOk) == Responder201([q EXCEPT !.smsEnviado = smsOk])

AdjuntarDocumentoEntero(cs, id, eid) ==
    [i \in 1..Len(cs) |->
        IF cs[i].id = id
        THEN [cs[i] EXCEPT !.googleCalendarEventId = eid, !.estado = EstadoPorDefecto]
        ELSE cs[i]]

AdjuntarIdDeCita(cs, id, eid) ==
    [i \in 1..Len(cs) |->
        IF cs[i].id = id THEN [cs[i] EXCEPT !.googleCalendarEventId = id] ELSE cs[i]]

\* $set of the modified path only: the other fields of the stored document stay
Adjuntar(cs, id, eid) ==
    [i \in 1..Len(cs) |->
        IF cs[i].id = id THEN [cs[i] EXCEPT !.googleCalendarEventId = eid] ELSE cs[i]]

\* await calendar.events.insert(...) settles
CrearEvento(r, calOk) ==
    /\ req[r].pc = "calendar"
    /\ LET q == req[r]
           eid == Len(eventos) + 1
       IN  /\ eventos' = IF calOk
                         THEN Append(eventos, Evento(NuevaCita(q.cita, q.body, q.creada, tz), tz))
                         ELSE eventos
           /\ req' = [req EXCEPT ![r] = TrasCalendario(q, calOk, eid)]
    /\ UNCHANGED <<citas, mensajes, can, ocupadas, now, tz, recibidas, listado>>

\* await nuevaCita.save() (the second save) settles
AdjuntarReferencia(r, saveOk) ==
    /\ req[r].pc = "attach"
    /\ LET q == req[r]
       IN  /\ citas' = IF saveOk THEN Adjuntar(citas, q.cita, q.googleEventId) ELSE citas
           /\ req' = [req EXCEPT ![r] = TrasAdjuntar(q, saveOk)]
    /\ UNCHANGED <<eventos, mensajes, can, ocupadas, now, tz, recibidas, listado>>

\* await twilioClient.messages.create(...) settles, and the response is sent
EnviarSMS(r, smsOk) ==
    /\ req[r].pc = "sms"
    /\ LET q == req[r]
       IN  /\ mensajes' = IF smsOk
                          THEN mensajes \cup {[cita |-> q.cita, to |-> q.body.telefono]}
                          ELSE mensajes
           /\ req' = [req EXCEPT ![r] = TrasSMS(q, smsOk)]
    /\ UNCHANGED <<citas, eventos, can, ocupadas, now, tz, recibidas, listado>>

\* the response has been sent; the handler is free for the next request
Liberar(r) ==
    /\ req[r].pc = "done"
    /\ req' = [req EXCEPT ![r] = ReqInicial]
    /\ UNCHANGED <<citas, eventos, mensajes, can, ocupadas, now, tz, recibidas, listado>>

-----------------------------------------------------------------------------
(* PATCH /api/appointments/:id/cancel *)

CanRespInicial == [status |-> 0, id |-> SinCita, estado |-> ""]

\* yaCancelada and falloAlmacen are kept for the properties only: the status
\* the document had before the update, and whether the store itself failed
CanInicial == [pc |-> "idle", id |-> SinCita, evento |-> SinEvento,
               deleteLlamado |-> FALSE, yaCancelada |-> FALSE, falloAlmacen |-> FALSE,
               resp |-> CanRespInicial]

CanResponder(c, codigo) == [c EXCEPT !.pc = "done", !.resp.status = codigo]

ActualizadaAlterna(c) ==
    [c EXCEPT !.estado = IF @ = "cancelada" THEN "confirmada" ELSE "cancelada"]

\* Cita.findByIdAndUpdate(id, {estado: 'cancelada'}, {new: true})
Actualizada(c) == [c EXCEPT !.estado = "cancelada"]

TrasActualizarSiempreBorra(c, doc) ==
    [c EXCEPT !.pc = "deleteEvent", !.evento = doc.googleCalendarEventId,
              !.resp.id = doc.id, !.resp.estado = doc.estado]

\* if (cita.googleCalendarEventId) { try { events.delete } catch { log } }; res.json
TrasActualizar(c, doc) ==
    IF doc.googleCalendarEventId # SinEvento
    THEN [c EXCEPT !.pc = "deleteEvent", !.evento = doc.googleCalendarEventId,
                   !.resp.id = doc.id, !.resp.estado = doc.estado]
    ELSE [CanResponder(c, 200) EXCEPT !.resp.id = doc.id, !.resp.estado = doc.estado]

\* the outer catch of the cancel handler: a CastError or a store failure is 500
Cancelar(id, falla) ==
    /\ can.pc = "idle"
    /\ LET c == [CanInicial EXCEPT !.id = id]
       IN  IF id = IdMalformado
           THEN /\ can' = CanResponder(c, 500)
                /\ citas' = citas
           ELSE IF falla
           THEN /\ can' = [CanResponder(c, 500) EXCEPT !.falloAlmacen = TRUE]
                /\ citas' = citas
           ELSE IF id \notin 1..Len(citas)
           THEN /\ can' = CanResponder(c, 404)
                /\ citas' = citas
           ELSE /\ citas' = [citas EXCEPT ![id] = Actualizada(@)]
                /\ can' = TrasActualizar([c EXCEPT !.yaCancelada = citas[id].estado = "cancelada"],
                                         Actualizada(citas[id]))
    /\ UNCHANGED <<eventos, mensajes, req, ocupadas, now, tz, recibidas, listado>>

EliminarEventoPropaga(ok) ==
    /\ can.pc = "deleteEvent"
    /\ eventos' = IF ok THEN [eventos EXCEPT ![can.evento].borrado = TRUE] ELSE eventos
    /\ can' = [CanResponder(can, IF ok THEN 200 ELSE 500) EXCEPT !.deleteLlamado = TRUE]
    /\ UNCHANGED <<citas, mensajes, req, ocupadas, now, tz, recibidas, listado>>

\* calendar.events.delete({eventId}) inside its own try/catch, then res.json
EliminarEvento(ok) ==
    /\ can.pc = "deleteEvent"
    /\ eventos' = IF ok THEN [eventos EXCEPT ![can.evento].borrado = TRUE] ELSE eventos
    /\ can' = [CanResponder(can, 200) EXCEPT !.deleteLlamado = TRUE]
    /\ UNCHANGED <<citas, mensajes, req, ocupadas, now, tz, recibidas, listado>>

LiberarCancel ==
    /\ can.pc = "done"
    /\ can' = CanInicial
    /\ UNCHANGED <<citas, eventos, mensajes, req, ocupadas, now, tz, recibidas, listado>>

-----------------------------------------------------------------------------
(* GET /api/appointments/occupied, and the server clock *)

\* desde is the new Date() of the filter; status and citasOcupadas are the
\* last answer sent
OcuInicial == [pc |-> "idle", desde |-> 0, status |-> 0, citasOcupadas |-> {}]

\* the handler builds the filter with the current instant and awaits the query
ConsultarOcupadas ==
    /\ ocupadas.pc = "idle"
    /\ ocupadas' = [OcuInicial EXCEPT !.pc = "find", !.desde = now]
    /\ UNCHANGED <<citas, eventos, mensajes, req, can, now, tz, recibidas, listado>>

\* the query settles: res.json(citasOcupadas), or 500 from the catch block
ResponderOcupadas(falla) ==
    /\ ocupadas.pc = "find"
    /\ ocupadas' = IF falla THEN [OcuInicial EXCEPT !.status = 500]
                   ELSE [OcuInicial EXCEPT !.status = 200,
                                           !.citasOcupadas = Ocupadas(citas, ocupadas.desde)]
    /\ UNCHANGED <<citas, eventos, mensajes, req, can, now, tz, recibidas, listado>>

Tick ==
    /\ \E t \in Relojes : t > now /\ now' = t
    /\ UNCHANGED <<citas, eventos, mensajes, req, can, ocupadas, tz, recibidas, listado>>

-----------------------------------------------------------------------------
(* GET /api/appointments *)

\* the characters of a slot value and their code points: sort() on a string
\* field compares the values as strings
Letras(h) ==
    CASE h = "08:00" -> <<"0", "8", ":", "0", "0">>
      [] h = "09:00" -> <<"0", "9", ":", "0", "0">>
      [] h = "10:00" -> <<"1", "0", ":", "0", "0">>
      [] h = "11:00" -> <<"1", "1", ":", "0", "0">>
      [] h = "13:00" -> <<"1", "3", ":", "0", "0">>
      [] h = "14:00" -> <<"1", "4", ":", "0", "0">>
      [] h = "15:00" -> <<"1", "5", ":", "0", "0">>
      [] h = "16:00" -> <<"1", "6", ":", "0", "0">>

Codigo(c) ==
    CASE c = "0" -> 48 [] c = "1" -> 49 [] c = "2" -> 50 [] c = "3" -> 51 [] c = "4" -> 52
      [] c = "5" -> 53 [] c = "6" -> 54 [] c = "7" -> 55 [] c = "8" -> 56 [] c = "9" -> 57
      [] c = ":" -> 58

RECURSIVE MenorTexto(_, _)
MenorTexto(a, b) ==
    IF b = <<>> THEN FALSE
    ELSE IF a = <<>> THEN TRUE
    ELSE IF Codigo(Head(a)) # Codigo(Head(b)) THEN Codigo(Head(a)) < Codigo(Head(b))
    ELSE MenorTexto(Tail(a), Tail(b))

\* sort({fecha: 1, horario: 1})
Antes(a, b) ==
    \/ a.fecha < b.fecha
    \/ a.fecha = b.fecha /\ MenorTexto(Letras(a.horario), Letras(b.horario))

RECURSIVE Insertar(_, _)
Insertar(x, l) ==
    IF l = <<>> THEN <<x>>
    ELSE IF Antes(x, Head(l)) THEN <<x>> \o l
    ELSE <<Head(l)>> \o Insertar(x, Tail(l))

RECURSIVE Ordenar(_)
Ordenar(cs) == IF cs = <<>> THEN <<>> ELSE Insertar(Head(cs), Ordenar(Tail(cs)))

ListadoInicial == [status |-> 0, citas |-> <<>>]

\* Cita.find().sort({fecha: 1, horario: 1}).lean(); res.json(citas), or 500
\* from the catch block
ListarCitas(falla) ==
    /\ listado' = IF falla THEN [status |-> 500, citas |-> <<>>]
                  ELSE [status |-> 200, citas |-> Ordenar(citas)]
    /\ UNCHANGED <<citas, eventos, mensajes, req, can, ocupadas, now, tz, recibidas>>

-----------------------------------------------------------------------------

Init ==
    /\ citas = <<>>
    /\ eventos = <<>>
    /\ mensajes = {}
    /\ req = [r \in Reqs |-> ReqInicial]
    /\ can = CanInicial
    /\ ocupadas = OcuInicial
    /\ listado = ListadoInicial
    /\ now \in Relojes
    /\ tz \in Husos
    /\ recibidas = 0

Next ==
    \/ \E r \in Reqs, b \in Cuerpos : Recibir(r, b)
    \/ \E r \in Reqs : BuscarExistente(r, FALSE)
    \/ \E r \in Reqs : Guardar(r, FALSE)
    \/ \E r \in Reqs : CrearEvento(r, TRUE)
    \/ \E r \in Reqs : AdjuntarReferencia(r, TRUE)
    \/ \E r \in Reqs : EnviarSMS(r, TRUE)
    \/ \E r \in Reqs : Liberar(r)
    \/ \E id \in IdsBienFormados : Cancelar(id, FALSE)
    \/ EliminarEvento(TRUE)
    \/ LiberarCancel
    \/ ConsultarOcupadas
    \/ \E falla \in BOOLEAN : ResponderOcupadas(falla)
    \/ Tick

Spec == Init /\ [][Next]_vars

\* The same handlers with requests for two bookable (date, slot) pairs, at one
\* server clock and offset: the collection grows to two appointments.  Of the
\* store's calls only the two saves may fail here, and the SMS is delivered.
CuerposDos == {Cuerpo(Ana, SoloFecha(2), h) : h \in {"08:00", "09:00"}}

InitDos ==
    /\ citas = <<>>
    /\ eventos = <<>>
    /\ mensajes = {}
    /\ req = [r \in Reqs |-> ReqInicial]
    /\ can = CanInicial
    /\ ocupadas = OcuInicial
    /\ listado = ListadoInicial
    /\ now = 48
    /\ tz = ZonaFija(0)
    /\ recibidas = 0

NextDos ==
    \/ \E r \in Reqs, b \in CuerposDos : Recibir(r, b)
    \/ \E r \in Reqs : BuscarExistente(r, FALSE)
    \/ \E r \in Reqs, falla \in BOOLEAN : Guardar(r, falla)
    \/ \E r \in Reqs, calOk \in BOOLEAN : CrearEvento(r, calOk)
    \/ \E r \in Reqs, saveOk \in BOOLEAN : AdjuntarReferencia(r, saveOk)
    \/ \E r \in Reqs : EnviarSMS(r, TRUE)
    \/ \E r \in Reqs : Liberar(r)
    \/ \E id \in IdsEntrada : Cancelar(id, FALSE)
    \/ \E ok \in BOOLEAN : EliminarEvento(ok)
    \/ LiberarCancel

SpecDos == InitDos /\ [][NextDos]_vars

\* The booking and cancel handlers on one bookable (date, slot) at one server
\* clock and offset, where every call to the store and to a collaborator may
\* fail.
CuerposFallos == {Cuerpo(Eva, SoloFecha(2), "08:00"), Cuerpo(Anonimo, NoFecha, "12:00")}

NextFallos ==
    \/ \E r \in Reqs, b \in CuerposFallos : Recibir(r, b)
    \/ \E r \in Reqs, falla \in BOOLEAN : BuscarExistente(r, falla)
    \/ \E r \in Reqs, falla \in BOOLEAN : Guardar(r, falla)
    \/ \E r \in Reqs, calOk \in BOOLEAN : CrearEvento(r, calOk)
    \/ \E r \in Reqs, saveOk \in BOOLEAN : AdjuntarReferencia(r, saveOk)
    \/ \E r \in Reqs, smsOk \in BOOLEAN : EnviarSMS(r, smsOk)
    \/ \E r \in Reqs : Liberar(r)
    \/ \E id \in IdsBienFormados, falla \in BOOLEAN : Cancelar(id, falla)
    \/ \E ok \in BOOLEAN : EliminarEvento(ok)
    \/ LiberarCancel

SpecFallos == InitDos /\ [][NextFallos]_vars

\* Booking and cancel with a store and collaborators that never fail: every
\* call answers with success.
NextFiable ==
    \/ \E r \in Reqs, b \in CuerposDos : Recibir(r, b)
    \/ \E r \in Reqs : BuscarExistente(r, FALSE)
    \/ \E r \in Reqs : Guardar(r, FALSE)
    \/ \E r \in Reqs : CrearEvento(r, TRUE)
    \/ \E r \in Reqs : AdjuntarReferencia(r, TRUE)
    \/ \E r \in Reqs : EnviarSMS(r, TRUE)
    \/ \E r \in Reqs : Liberar(r)
    \/ \E id \in IdsBienFormados : Cancelar(id, FALSE)
    \/ EliminarEvento(TRUE)
    \/ LiberarCancel

SpecFiable == InitDos /\ [][NextFiable]_vars

\* The same reliable store and collaborators with requests that name one
\* calendar day and slot in two ways: as a date and as a date-time of that day.
CuerposFechaHora == {Cuerpo(Ana, f, "08:00") : f \in {SoloFecha(2), FechaHora(2, 10)}}

NextFechaHora ==
    \/ \E r \in Reqs, b \in CuerposFechaHora : Recibir(r, b)
    \/ \E r \in Reqs : BuscarExistente(r, FALSE)
    \/ \E r \in Reqs : Guardar(r, FALSE)
    \/ \E r \in Reqs : CrearEvento(r, TRUE)
    \/ \E r \in Reqs : AdjuntarReferencia(r, TRUE)
    \/ \E r \in Reqs : EnviarSMS(r, TRUE)
    \/ \E r \in Reqs : Liberar(r)
    \/ \E id \in IdsBienFormados : Cancelar(id, FALSE)
    \/ EliminarEvento(TRUE)
    \/ LiberarCancel

SpecFechaHora == InitDos /\ [][NextFechaHora]_vars

\* The booking handler on a server whose time zone changes its offset during
\* day 2 (or never does), with a store and collaborators that never fail.
ZonasEvento == {ZonaOtono, ZonaPrimavera, ZonaFija(-6)}

InitEvento ==
    /\ citas = <<>>
    /\ eventos = <<>>
    /\ mensajes = {}
    /\ req = [r \in Reqs |-> ReqInicial]
    /\ can = CanInicial
    /\ ocupadas = OcuInicial
    /\ listado = ListadoInicial
    /\ now = 48
    /\ tz \in ZonasEvento
    /\ recibidas = 0

NextEvento ==
    \/ \E r \in Reqs, b \in CuerposDos : Recibir(r, b)
    \/ \E r \in Reqs : BuscarExistente(r, FALSE)
    \/ \E r \in Reqs : Guardar(r, FALSE)
    \/ \E r \in Reqs : CrearEvento(r, TRUE)
    \/ \E r \in Reqs : AdjuntarReferencia(r, TRUE)
    \/ \E r \in Reqs : EnviarSMS(r, TRUE)
    \/ \E r \in Reqs : Liberar(r)

SpecEvento == InitEvento /\ [][NextEvento]_vars

\* The booking handler on request bodies in which each field is either valid
\* or not, alone and in every combination, at every server clock and offset;
\* the store and the collaborators answer without failure.
EmailTldCorto == Texto(<<"a", "@", "e", ".", "c">>)

\* an address whose user part is a high surrogate with no low surrogate
EmailSustituto == <<55357>> \o Texto(<<"@", "e", ".", "c", "o">>)

\* valid fields but for the email and the date
CuerpoCon(e, f) == [Cuerpo(Ana, f, "08:00") EXCEPT !.email = e]

\* every combination of a valid and an invalid value of each field; then
\* requests whose other fields are valid, dated yesterday or today late in the
\* evening as a date-time, yesterday or today as a date, and a past and a
\* future day in a notation that is not ISO 8601; then requests whose email
\* makes isEmail() raise, with a past date and with every other field invalid
CuerposValidacion ==
    {[nombreCompleto |-> n, email |-> e, telefono |-> t, tipoServicio |-> s,
      fecha |-> f, horario |-> h] :
        n \in {Ana.nombreCompleto, Anonimo.nombreCompleto},
        e \in {Ana.email, EmailTldCorto},
        t \in {Ana.telefono, Anonimo.telefono},
        s \in {"ortodoncia", "blanqueamiento"},
        f \in {NoFecha, SoloFecha(0), SoloFecha(2)},
        h \in {"08:00", "12:00"}}
        \cup {CuerpoCon(Ana.email, f) :
                f \in {FechaHora(1, 23), SoloFecha(1), FechaTexto(0), FechaTexto(3)}}
        \cup {CuerpoCon(EmailSustituto, SoloFecha(0)),
              [Cuerpo(Anonimo, NoFecha, "12:00") EXCEPT
                  !.email = EmailSustituto, !.tipoServicio = "blanqueamiento"]}

NextValidacion ==
    \/ \E r \in Reqs, b \in CuerposValidacion : Recibir(r, b)
    \/ \E r \in Reqs : BuscarExistente(r, FALSE)
    \/ \E r \in Reqs : Guardar(r, FALSE)
    \/ \E r \in Reqs : CrearEvento(r, TRUE)
    \/ \E r \in Reqs : AdjuntarReferencia(r, TRUE)
    \/ \E r \in Reqs : EnviarSMS(r, TRUE)
    \/ \E r \in Reqs : Liberar(r)

SpecValidacion == Init /\ [][NextValidacion]_vars

\* The listing on collections of up to MaxCitas appointments, stored in any
\* order on distinct (fecha, horario) pairs of two days, one of them booked
\* with a date-time; the first or the last one stored may have been cancelled.
MaxCitas == 3

DiasListado == {2, 3}

CitasListado ==
    {NuevaCita(0, Cuerpo(Ana, SoloFecha(d), Horarios[k]), 48, ZonaFija(0)) :
        d \in DiasListado, k \in 1..Len(Horarios)}
        \cup {NuevaCita(0, Cuerpo(Ana, FechaHora(2, 10), "08:00"), 48, ZonaFija(0))}

Colecciones ==
    UNION {
        {cs \in [1..n -> CitasListado] :
            \A i, j \in 1..n :
                i # j => (cs[i].fecha # cs[j].fecha \/ cs[i].horario # cs[j].horario)}
        : n \in 0..MaxCitas }

\* identifiers in order of insertion, and the cancels already applied
Almacenadas(cs, canceladas) ==
    [i \in 1..Len(cs) |->
        IF i \in canceladas THEN Actualizada([cs[i] EXCEPT !.id = i])
        ELSE [cs[i] EXCEPT !.id = i]]

InitListado ==
    /\ citas \in {Almacenadas(cs, c) : cs \in Colecciones, c \in {{}, {1}, {MaxCitas}}}
    /\ eventos = <<>>
    /\ mensajes = {}
    /\ req = [r \in Reqs |-> ReqInicial]
    /\ can = CanInicial
    /\ ocupadas = OcuInicial
    /\ listado = ListadoInicial
    /\ now = 48
    /\ tz = ZonaFija(0)
    /\ recibidas = 0

NextListado == \E falla \in BOOLEAN : ListarCitas(falla)

SpecListado == InitListado /\ [][NextListado]_vars

\* A collaborator that never answers: neither calendar.events.insert nor
\* twilioClient.messages.create is given a timeout, so the handler stays at
\* its await.  donde is the call that hangs.
Colgar(r, donde) ==
    /\ req[r].pc = donde
    /\ req' = [req EXCEPT ![r].pc = "esperando"]
    /\ UNCHANGED <<citas, eventos, mensajes, can, ocupadas, now, tz, recibidas, listado>>

\* The booking handler alone, each await resumed as soon as its promise
\* settles: every enabled step of a handler is eventually taken.
NextRespuesta ==
    \/ \E r \in Reqs, b \in CuerposDos : Recibir(r, b)
    \/ \E r \in Reqs, falla \in BOOLEAN : BuscarExistente(r, falla)
    \/ \E r \in Reqs, falla \in BOOLEAN : Guardar(r, falla)
    \/ \E r \in Reqs, calOk \in BOOLEAN : CrearEvento(r, calOk)
    \/ \E r \in Reqs, saveOk \in BOOLEAN : AdjuntarReferencia(r, saveOk)
    \/ \E r \in Reqs, smsOk \in BOOLEAN : EnviarSMS(r, smsOk)
    \/ \E r \in Reqs, donde \in {"calendar", "sms"} : Colgar(r, donde)
    \/ \E r \in Reqs : Liberar(r)

PasoDe(r) ==
    \/ \E falla \in BOOLEAN : BuscarExistente(r, falla)
    \/ \E falla \in BOOLEAN : Guardar(r, falla)
    \/ \E calOk \in BOOLEAN : CrearEvento(r, calOk)
    \/ \E saveOk \in BOOLEAN : AdjuntarReferencia(r, saveOk)
    \/ \E smsOk \in BOOLEAN : EnviarSMS(r, smsOk)
    \/ \E donde \in {"calendar", "sms"} : Colgar(r, donde)

SpecRespuesta ==
    InitDos /\ [][NextRespuesta]_vars /\ \A r \in Reqs : WF_vars(PasoDe(r))

-----------------------------------------------------------------------------
(* Vocabulary of the properties *)

Range(f) == {f[i] : i \in DOMAIN f}

\* the server's current calendar date
DiaLocal(t, z) == HoraLocal(t, z) \div HorasPorDia

Terminada(r) == req[r].pc = "done"
FechaDe(r) == ToDate(req[r].body.fecha, tz)
HorarioDe(r) == req[r].body.horario

\* r has just been received and validated in this step
Recibida(r) == req[r].pc = "idle" /\ req'[r].pc # "idle"

OtrosCamposValidos(b) ==
    /\ NombreValido(b.nombreCompleto) /\ IsEmail(b.email) /\ TelefonoValido(b.telefono)
    /\ ServicioValido(b.tipoServicio) /\ HorarioValido(b.horario)

-----------------------------------------------------------------------------
(* C1: in every reachable state, for every (date, slot) pair at most one
   stored appointment has status 'confirmada'; the date of an appointment is
   the calendar day of its fecha. *)
C1_UnaConfirmadaPorHorario ==
    \A i, j \in 1..Len(citas) :
        (i # j /\ citas[i].estado = "confirmada" /\ citas[j].estado = "confirmada")
            => ~(DiaDe(citas[i].fecha) = DiaDe(citas[j].fecha)
                    /\ citas[i].horario = citas[j].horario)

\* What the index does enforce: no two confirmed appointments with the same
\* stored instant and slot.
C1_UnaConfirmadaPorInstante ==
    \A i, j \in 1..Len(citas) :
        (i # j /\ citas[i].estado = "confirmada" /\ citas[j].estado = "confirmada")
            => ~(citas[i].fecha = citas[j].fecha /\ citas[i].horario = citas[j].horario)

(* C2: two valid booking requests for the same (date, slot), both in flight
   before their reservation save at the same time, both arrived while the
   (date, slot) was free (no confirmed appointment on it) and neither met a
   storage failure: exactly one ends with 201 and the other with 409. *)
C2_UnaGanaOtraPierde ==
    \A r1, r2 \in Reqs :
        ( /\ r1 # r2
          /\ Terminada(r1) /\ Terminada(r2)
          /\ req[r1].resp.status # 400 /\ req[r2].resp.status # 400
          /\ FechaDe(r1) = FechaDe(r2) /\ HorarioDe(r1) = HorarioDe(r2)
          /\ req[r1].rival /\ req[r2].rival
          /\ req[r1].alLlegar # "ocupado" /\ req[r2].alLlegar # "ocupado"
          /\ ~req[r1].falloAlmacen /\ ~req[r2].falloAlmacen )
        => {req[r1].resp.status, req[r2].resp.status} = {201, 409}

\* The same race on a (date, slot) that holds no appointment at all is resolved
\* as stated: one 201, one 409.
CarreraEnHorarioVacio ==
    \A r1, r2 \in Reqs :
        ( /\ r1 # r2
          /\ Terminada(r1) /\ Terminada(r2)
          /\ FechaDe(r1) = FechaDe(r2) /\ HorarioDe(r1) = HorarioDe(r2)
          /\ req[r1].rival /\ req[r2].rival
          /\ req[r1].alLlegar = "vacio" /\ req[r2].alLlegar = "vacio"
          /\ ~req[r1].falloAlmacen /\ ~req[r2].falloAlmacen )
        => {req[r1].resp.status, req[r2].resp.status} = {201, 409}

(* C3: a valid booking request that arrives after the confirmed appointment
   of its (date, slot) has been cancelled succeeds: unless a storage failure
   or another confirmed appointment intervenes, its reservation save stores
   a new confirmed appointment. *)
C3_CancelarLiberaHorario ==
    [][\A r \in Reqs :
        ( /\ req[r].pc = "save" /\ req'[r].pc # "save"
          /\ req[r].alLlegar = "cancelado"
          /\ ~ExisteConfirmada(citas, FechaDe(r), HorarioDe(r))
          /\ ~req'[r].falloAlmacen )
        => ( /\ req'[r].pc = "calendar"
             /\ Len(citas') = Len(citas) + 1
             /\ citas'[Len(citas')].estado = "confirmada" )]_vars

(* C4: a request whose reservation committed answers 201 with the generated
   identifier whatever the two collaborators did; no step of the integrations
   removes the stored appointment nor changes its status; the calendar flag
   is true exactly when an event was created for the appointment, the sms
   flag exactly when a message was sent for it. *)
C4_Respuesta201 ==
    \A r \in Reqs :
        (Terminada(r) /\ req[r].resp.status = 201) =>
            /\ req[r].resp.id # SinCita
            /\ \E i \in 1..Len(citas) :
                  /\ citas[i].id = req[r].resp.id
                  /\ citas[i].fecha = FechaDe(r) /\ citas[i].horario = HorarioDe(r)
            /\ req[r].resp.googleCalendar
                  <=> (\E e \in 1..Len(eventos) : eventos[e].cita = req[r].resp.id)
            /\ req[r].resp.sms
                  <=> ([cita |-> req[r].resp.id, to |-> req[r].body.telefono] \in mensajes)

C4_IntegracionNoAfecta ==
    \A r \in Reqs :
        (req[r].pc \in {"calendar", "attach", "sms"} /\ req'[r] # req[r]) =>
            /\ req'[r].pc \in {"attach", "sms", "done"}
            /\ req'[r].pc = "done" => req'[r].resp.status = 201
            /\ Len(citas') = Len(citas)
            /\ \A i \in 1..Len(citas) :
                  /\ citas'[i].estado = citas[i].estado
                  /\ citas'[i].id = citas[i].id

C4_ExitoPeseAIntegraciones == []C4_Respuesta201 /\ [][C4_IntegracionNoAfecta]_vars

\* both collaborators failed, and the response is still 201 for a confirmed appointment
C4_Witness ==
    \E r \in Reqs :
        /\ Terminada(r) /\ req[r].resp.status = 201
        /\ ~req[r].resp.googleCalendar /\ ~req[r].resp.sms
        /\ citas[req[r].resp.id].estado = "confirmada"

(* C5: after a committed reservation both collaborators are invoked, the SMS
   one whether createEvent succeeded, failed, or succeeded with a failed
   second save; none of these outcomes turns the response into a failure. *)
C5_EfectosIndependientes ==
    \A r \in Reqs :
        (Terminada(r) /\ req[r].cita # SinCita) =>
            /\ req[r].calendarLlamado
            /\ req[r].smsLlamado
            /\ req[r].resp.status = 201

\* createEvent succeeded, the second save failed, and the SMS was still sent
C5_Witness ==
    \E r \in Reqs :
        /\ Terminada(r) /\ req[r].attachFallo
        /\ req[r].smsLlamado /\ req[r].resp.sms /\ req[r].resp.status = 201

(* C6: a collaborator is called for a request only after its reservation is
   stored; a request answered 400, 409 or 500 has called no collaborator, and
   every event and message belongs to a stored appointment. *)
C6_EfectosSoloTrasReserva ==
    /\ \A r \in Reqs :
          /\ (req[r].calendarLlamado \/ req[r].smsLlamado) =>
                \E i \in 1..Len(citas) :
                    /\ citas[i].id = req[r].cita
                    /\ citas[i].fecha = FechaDe(r) /\ citas[i].horario = HorarioDe(r)
          /\ (Terminada(r) /\ req[r].resp.status \in {400, 409, 500}) =>
                (~req[r].calendarLlamado /\ ~req[r].smsLlamado /\ req[r].cita = SinCita)
    /\ \A e \in 1..Len(eventos) : \E i \in 1..Len(citas) : citas[i].id = eventos[e].cita
    /\ \A m \in mensajes : \E i \in 1..Len(citas) : citas[i].id = m.cita

\* the loser of a race was refused by the duplicate-key error while the winner's
\* collaborators had been called
C6_Witness ==
    \E r1, r2 \in Reqs :
        /\ Terminada(r1) /\ req[r1].resp.status = 409 /\ req[r1].rival
        /\ Terminada(r2) /\ req[r2].resp.status = 201 /\ req[r2].calendarLlamado
        /\ eventos # <<>>

(* C7: a booking request whose date is strictly before the server's current
   date is answered 400, whatever its other fields and the store, and the
   store is left unchanged. *)
C7_FechaPasadaRechazada ==
    [][\A r \in Reqs :
        ( /\ Recibida(r)
          /\ IsISO8601(req'[r].body.fecha)
          /\ req'[r].body.fecha.dia < DiaLocal(now, tz) )
        => ( /\ req'[r].pc = "done" /\ req'[r].resp.status = 400
             /\ "fecha" \in Range(req'[r].resp.errores)
             /\ citas' = citas )]_vars

\* What the validation does give: a date-only string of a day before the
\* server's current date, in a request none of whose validators raises an
\* exception, is answered 400 naming fecha and the store is left unchanged.
C7_FechaSolaPasada ==
    [][\A r \in Reqs :
        ( /\ Recibida(r)
          /\ req'[r].body.fecha.forma = "fecha"
          /\ req'[r].body.fecha.dia < DiaLocal(now, tz)
          /\ ~ValidacionLanza(req'[r].body) )
        => ( /\ req'[r].pc = "done" /\ req'[r].resp.status = 400
             /\ "fecha" \in Range(req'[r].resp.errores)
             /\ citas' = citas )]_vars

\* a request valid but for its past date was refused while the store held an appointment
C7_Witness ==
    \E r \in Reqs :
        /\ Terminada(r) /\ req[r].resp.status = 400
        /\ IsISO8601(req[r].body.fecha) /\ req[r].body.fecha.dia < DiaLocal(now, tz)
        /\ OtrosCamposValidos(req[r].body)
        /\ citas # <<>>

(* C8: a booking request dated the server's current calendar date, its other
   fields valid, is not rejected by the date validation, at every server time
   of day and UTC offset. *)
C8_HoyAceptado ==
    [][\A r \in Reqs :
        ( /\ Recibida(r)
          /\ IsISO8601(req'[r].body.fecha)
          /\ req'[r].body.fecha.dia = DiaLocal(now, tz)
          /\ OtrosCamposValidos(req'[r].body) )
        => ( /\ "fecha" \notin Range(req'[r].resp.errores)
             /\ req'[r].resp.status # 400 )]_vars

(* C9: the occupied-slots query returns exactly the (date, slot) pairs of the
   stored appointments with status 'confirmada' dated today or later, today
   being the server's date when the query was issued, and does not change
   the store. *)
OcupadasEsperadas(cs, t, z) ==
    {[fecha |-> cs[i].fecha, horario |-> cs[i].horario] :
        i \in {j \in 1..Len(cs) :
                 cs[j].estado = "confirmada" /\ DiaDe(cs[j].fecha) >= DiaLocal(t, z)}}

Pares(os) == {[fecha |-> o.fecha, horario |-> o.horario] : o \in os}

C9_OcupadasExactas ==
    [][(ocupadas.pc = "find" /\ ocupadas'.status = 200) =>
          /\ Pares(ocupadas'.citasOcupadas) = OcupadasEsperadas(citas, ocupadas.desde, tz)
          /\ citas' = citas]_vars

(* C10: after a booking for a date strictly after today has succeeded and
   while that appointment is still confirmed, the occupied-slots query
   includes its (date, slot). *)
C10_ReservaFuturaListada ==
    \A r \in Reqs :
        ( /\ Terminada(r) /\ req[r].resp.status = 201
          /\ req[r].body.fecha.dia > DiaLocal(now, tz)
          /\ citas[req[r].resp.id].estado = "confirmada" )
        => [fecha |-> FechaDe(r), horario |-> HorarioDe(r)] \in Pares(Ocupadas(citas, now))

-----------------------------------------------------------------------------
(* Cancel: vocabulary *)

Existe(cs, id) == \E i \in 1..Len(cs) : cs[i].id = id

\* the cancel request has just been received and the store has answered
CancelRecibida == can.pc = "idle" /\ can'.pc # "idle" /\ ~can'.falloAlmacen

CancelContrato ==
    IF Existe(citas, can'.id)
    THEN /\ citas'[can'.id].estado = "cancelada"
         /\ can'.resp.id = can'.id /\ can'.resp.estado = "cancelada"
         /\ can'.pc = "done" => can'.resp.status = 200
    ELSE /\ can'.pc = "done" /\ can'.resp.status = 404
         /\ ~can'.deleteLlamado
         /\ citas' = citas /\ eventos' = eventos /\ mensajes' = mensajes

(* C11: a cancel request the store answers: when no appointment has the
   identifier the response is 404, no collaborator is called and the store
   is unchanged; when one has it, its status becomes 'cancelada' and the
   response carries its id and the status 'cancelada'. *)
C11_CancelarContrato == [][CancelRecibida => CancelContrato]_vars

\* The same contract holds for every identifier that is a well-formed ObjectId.
C11_IdBienFormado ==
    [][(CancelRecibida /\ can'.id # IdMalformado) => CancelContrato]_vars

(* C12: cancelling an appointment that is already 'cancelada' is answered
   with the success outcome (200), leaves the collection exactly as it was,
   and does not break the rule of one confirmed appointment per (date, slot). *)
C12_Recancelar ==
    (CancelRecibida /\ Existe(citas, can'.id) /\ citas[can'.id].estado = "cancelada")
        => /\ citas' = citas
           /\ can'.pc \in {"deleteEvent", "done"}
           /\ can'.pc = "done" => can'.resp.status = 200
           /\ C1_UnaConfirmadaPorHorario => C1_UnaConfirmadaPorHorario'

C12_RecancelarRespondida ==
    (can.pc = "done" /\ can.yaCancelada)
        => can.resp.status = 200 /\ can.resp.estado = "cancelada"

C12_RecancelarIdempotente == [][C12_Recancelar]_vars /\ []C12_RecancelarRespondida

\* a second cancel of the same appointment has been answered 200
C12_Witness ==
    /\ can.pc = "done" /\ can.yaCancelada /\ can.resp.status = 200
    /\ citas[can.id].estado = "cancelada"

(* C13: on a cancel of an existing appointment deleteEvent is invoked if and
   only if the updated document has a calendar reference, and with that
   reference; whether deleteEvent succeeds or fails, the cancel is answered
   200 with status 'cancelada' and the stored status stays 'cancelada'. *)
C13_BorrarSiHayReferencia ==
    (CancelRecibida /\ Existe(citas, can'.id))
        => /\ can'.pc = "deleteEvent" <=> citas[can'.id].googleCalendarEventId # SinEvento
           /\ can'.pc = "deleteEvent" => can'.evento = citas[can'.id].googleCalendarEventId
           /\ can'.pc = "done" => ~can'.deleteLlamado /\ eventos' = eventos

C13_BorradoNoCambiaResultado ==
    (can.pc = "deleteEvent" /\ can'.pc # "deleteEvent")
        => /\ can'.pc = "done" /\ can'.deleteLlamado
           /\ can'.resp.status = 200
           /\ can'.resp.id = can.id /\ can'.resp.estado = "cancelada"
           /\ citas' = citas /\ citas'[can.id].estado = "cancelada"
           /\ \A e \in 1..Len(eventos) : e # can.evento => eventos'[e] = eventos[e]

C13_BorradoDeEvento ==
    [][C13_BorrarSiHayReferencia /\ C13_BorradoNoCambiaResultado]_vars

\* deleteEvent was called for the appointment's event and failed; the cancel
\* was still answered 200 and the appointment is cancelled
C13_Witness ==
    /\ can.pc = "done" /\ can.deleteLlamado /\ can.resp.status = 200
    /\ can.evento = citas[can.id].googleCalendarEventId
    /\ ~eventos[can.evento].borrado
    /\ citas[can.id].estado = "cancelada"

(* C14: across every step no stored appointment is removed, and a stored
   appointment changes only by getting its calendar reference set or by its
   status moving to 'cancelada'; its identifier, patient data, date, slot and
   creation timestamp never change. *)
SoloReferenciaOEstado(antes, despues) ==
    /\ despues.id = antes.id
    /\ despues.nombreCompleto = antes.nombreCompleto
    /\ despues.email = antes.email
    /\ despues.telefono = antes.telefono
    /\ despues.tipoServicio = antes.tipoServicio
    /\ despues.fecha = antes.fecha
    /\ despues.horario = antes.horario
    /\ despues.fechaCreacion = antes.fechaCreacion
    /\ despues.estado # antes.estado => despues.estado = "cancelada"
    /\ despues.googleCalendarEventId # antes.googleCalendarEventId
          => despues.googleCalendarEventId # SinEvento

C14_CicloDeVida ==
    [][ /\ Len(citas') >= Len(citas)
        /\ \A i \in 1..Len(citas) : SoloReferenciaOEstado(citas[i], citas'[i]) ]_vars

\* an appointment that was cancelled while its booking request was still
\* integrating: it got its calendar reference after the cancel
C14_Witness ==
    \E i \in 1..Len(citas), r \in Reqs :
        /\ citas[i].estado = "cancelada" /\ citas[i].googleCalendarEventId # SinEvento
        /\ Terminada(r) /\ req[r].cita = citas[i].id
        /\ can.pc = "done" /\ can.id = citas[i].id /\ ~can.deleteLlamado /\ can.resp.status = 200

(* C15: in every reachable state an appointment has a calendar reference
   only if createEvent succeeded for that appointment, and the reference is
   the identifier createEvent returned for it. *)
C15_ReferenciaDeEventoCreado ==
    \A i \in 1..Len(citas) :
        citas[i].googleCalendarEventId # SinEvento
            => /\ citas[i].googleCalendarEventId \in 1..Len(eventos)
               /\ eventos[citas[i].googleCalendarEventId].cita = citas[i].id

\* two appointments, the second one's event created first: each stores the
\* reference of its own event
C15_Witness ==
    \E i, j \in 1..Len(citas) :
        /\ i < j
        /\ citas[i].googleCalendarEventId # SinEvento
        /\ citas[j].googleCalendarEventId # SinEvento
        /\ citas[j].googleCalendarEventId < citas[i].googleCalendarEventId

(* C16: every booking request eventually receives its response, and once
   its reservation has committed the response is 201, also when a
   collaborator call never returns. *)
C16_RespuestaSiempre ==
    \A r \in Reqs :
        /\ (req[r].pc \notin {"idle", "done"}) ~> (req[r].pc = "done")
        /\ (req[r].cita # SinCita) ~> (req[r].pc = "done" /\ req[r].resp.status = 201)

(* C17: a failure of the reservation save that is not a duplicate-key
   conflict is answered 500 (not 409, not 201), no appointment is stored for
   the request and no collaborator is called. *)
C17_FalloGuardar ==
    \A r \in Reqs :
        (req[r].pc = "save" /\ req'[r].falloAlmacen)
            => /\ req'[r].pc = "done" /\ req'[r].resp.status = 500
               /\ req'[r].resp.id = SinCita /\ req'[r].cita = SinCita
               /\ citas' = citas /\ eventos' = eventos /\ mensajes' = mensajes

C17_FalloRespondido ==
    \A r \in Reqs :
        req[r].falloAlmacen
            => /\ Terminada(r) /\ req[r].resp.status = 500
               /\ ~req[r].calendarLlamado /\ ~req[r].smsLlamado

C17_ErrorDeAlmacen == [][C17_FalloGuardar]_vars /\ []C17_FalloRespondido

\* the save failed on a (date, slot) that holds no appointment (the pre-check
\* had answered): 500, and the (date, slot) still holds none
C17_Witness ==
    \E r \in Reqs :
        /\ Terminada(r) /\ req[r].falloAlmacen /\ req[r].resp.status = 500
        /\ EstadoHorario(citas, FechaDe(r), HorarioDe(r)) = "vacio"
        /\ citas # <<>>

\* The fields of a request body that violate their rule: the name has 2 to
\* 100 characters once trimmed, the email is a syntactically valid address,
\* the phone matches the pattern, the service and the slot are known ones,
\* the date is an ISO 8601 date not before the server's current date.
CamposInvalidos(b, t, z) ==
    {c \in {"nombreCompleto", "email", "telefono", "tipoServicio", "fecha", "horario"} :
        \/ c = "nombreCompleto" /\ ~NombreValido(b.nombreCompleto)
        \/ c = "email" /\ ~IsEmail(b.email)
        \/ c = "telefono" /\ ~TelefonoValido(b.telefono)
        \/ c = "tipoServicio" /\ ~ServicioValido(b.tipoServicio)
        \/ c = "fecha" /\ (~IsISO8601(b.fecha) \/ b.fecha.dia < DiaLocal(t, z))
        \/ c = "horario" /\ ~HorarioValido(b.horario)}

(* C18: a booking request in which several fields fail validation is
   answered 400 with an error list that names every failing field, not only
   the first: the set of fields named equals the set of fields that violate
   their rule; a request with no failing field is not answered 400. *)
C18_TodosLosCampos ==
    [][\A r \in Reqs :
        Recibida(r) =>
            LET malos == CamposInvalidos(req'[r].body, now, tz)
            IN  IF malos # {}
                THEN /\ req'[r].pc = "done" /\ req'[r].resp.status = 400
                     /\ Range(req'[r].resp.errores) = malos
                ELSE /\ req'[r].resp.status # 400
                     /\ req'[r].resp.errores = <<>>]_vars

\* What the validation does give: when no validator raises an exception and
\* the date is no ISO 8601 date, or a date-only string of another day than the
\* server's current one, the request is answered 400 exactly when a field
\* violates its rule, and the list names every such field and no other.
C18_SinExcepcion ==
    [][\A r \in Reqs :
        ( /\ Recibida(r)
          /\ ~ValidacionLanza(req'[r].body)
          /\ \/ ~IsISO8601(req'[r].body.fecha)
             \/ /\ req'[r].body.fecha.forma = "fecha"
                /\ req'[r].body.fecha.dia # DiaLocal(now, tz) )
        => LET malos == CamposInvalidos(req'[r].body, now, tz)
           IN  IF malos # {}
               THEN /\ req'[r].pc = "done" /\ req'[r].resp.status = 400
                    /\ Range(req'[r].resp.errores) = malos
               ELSE /\ req'[r].resp.status # 400
                    /\ req'[r].resp.errores = <<>>]_vars

\* a request with all six fields invalid was answered 400 naming the six
C18_Witness ==
    \E r \in Reqs :
        /\ Terminada(r) /\ req[r].resp.status = 400
        /\ Cardinality(Range(req[r].resp.errores)) = 6
        /\ Cardinality(CamposInvalidos(req[r].body, now, tz)) = 6

(* C19: the calendar event built for an appointment starts at the
   appointment's date and slot read as clinic local time
   (America/El_Salvador) and ends exactly one hour after its start. *)
InicioEnHoraLocal(c) == DiaDe(c.fecha) * HorasPorDia + HoraDe(c.horario) - ZonaClinica

C19_EventoEnHoraLocal ==
    \A e \in 1..Len(eventos) :
        /\ eventos[e].inicio = InicioEnHoraLocal(citas[eventos[e].cita])
        /\ eventos[e].fin = eventos[e].inicio + 1

(* C20: the listing returns every stored appointment of every status,
   ordered ascending by date (the calendar day) and then by slot, the slots
   in their time-of-day order. *)
C20_ListadoOrdenado ==
    [][ListarCitas(FALSE) =>
        /\ Len(listado'.citas) = Len(citas)
        /\ Range(listado'.citas) = Range(citas)
        /\ \A i, j \in 1..Len(listado'.citas) :
              i < j => \/ DiaDe(listado'.citas[i].fecha) < DiaDe(listado'.citas[j].fecha)
                       \/ /\ DiaDe(listado'.citas[i].fecha) = DiaDe(listado'.citas[j].fecha)
                          /\ HoraDe(listado'.citas[i].horario) <= HoraDe(listado'.citas[j].horario)]_vars

\* What the sort does give: every appointment, ascending by the stored
\* instant and then by slot in time-of-day order.
C20_ListadoPorInstante ==
    [][ListarCitas(FALSE) =>
        /\ Len(listado'.citas) = Len(citas)
        /\ Range(listado'.citas) = Range(citas)
        /\ \A i, j \in 1..Len(listado'.citas) :
              i < j => \/ listado'.citas[i].fecha < listado'.citas[j].fecha
                       \/ /\ listado'.citas[i].fecha = listado'.citas[j].fecha
                          /\ HoraDe(listado'.citas[i].horario) < HoraDe(listado'.citas[j].horario)]_vars

(* C21: with a store and a calendar that never fail, once the booking
   request that created an appointment and the cancel of that appointment
   have both finished, a 'cancelada' appointment has no calendar event that
   was created and not deleted, also when the cancel committed between the
   reservation save and the attachment of the calendar reference. *)
EnCurso(id) ==
    \/ \E r \in Reqs : req[r].cita = id /\ ~Terminada(r)
    \/ can.id = id /\ can.pc = "deleteEvent"

C21_SinEventoHuerfano ==
    \A e \in 1..Len(eventos) :
        (citas[eventos[e].cita].estado = "cancelada" /\ ~EnCurso(eventos[e].cita))
            => eventos[e].borrado

(* C22: once an appointment's status is 'cancelada' no step makes it
   'confirmada' again; in particular the second save of the booking handler
   does not revert a cancel that committed after the reservation save. *)
C22_EstadoMonotono ==
    [][\A i \in 1..Len(citas) :
          citas[i].estado = "cancelada"
              => (i \in 1..Len(citas') /\ citas'[i].estado = "cancelada")]_vars

\* the second save has attached the reference to an appointment cancelled
\* before it (its cancel found no reference to delete): still 'cancelada'
C22_Witness ==
    \E r \in Reqs :
        /\ Terminada(r) /\ req[r].resp.status = 201
        /\ req[r].resp.googleCalendar /\ ~req[r].attachFallo
        /\ citas[req[r].cita].estado = "cancelada"
        /\ citas[req[r].cita].googleCalendarEventId = req[r].googleEventId
        /\ ~eventos[req[r].googleEventId].borrado

(* C23: in every reachable state the store holds at most one appointment,
   of any status, for each (date, slot) pair; the date of an appointment is
   the calendar day of its fecha. *)
C23_UnaCitaPorHorario ==
    \A i, j \in 1..Len(citas) :
        i # j => \/ DiaDe(citas[i].fecha) # DiaDe(citas[j].fecha)
                 \/ citas[i].horario # citas[j].horario

\* What the index does enforce: one appointment per stored instant and slot.
C23_UnaCitaPorInstante ==
    \A i, j \in 1..Len(citas) :
        i # j => (citas[i].fecha # citas[j].fecha \/ citas[i].horario # citas[j].horario)

(* C24: whenever a booking response reports the calendar flag as true, the
   stored appointment carries the reference createEvent returned (so that a
   later cancel calls deleteEvent for it). *)
C24_BanderaImplicaReferencia ==
    \A r \in Reqs :
        (Terminada(r) /\ req[r].resp.status = 201 /\ req[r].resp.googleCalendar)
            => /\ req[r].googleEventId # SinEvento
               /\ citas[req[r].resp.id].googleCalendarEventId = req[r].googleEventId

====
